---- MODULE Spec2Model ----
(***************************************************************************)
(* NimGateway (src/src/main/im/nimGateway.ts): the lifecycle controller of *)
(* the NIM gateway.  The gateway object runs on a single-threaded event    *)
(* loop: a synchronous stretch of code is one atomic step, promise         *)
(* continuations (microtasks) run before any timer or native callback      *)
(* (macrotasks).  The native SDK is the environment: it decides whether    *)
(* init() and the service accessors succeed, whether off() raises, and     *)
(* when a registered listener is invoked.                                  *)
(***************************************************************************)
EXTENDS Integers, Sequences, FiniteSets, TLC

\* ---------------------------------------------------------------- bounds
\* start()/stop() calls that have not yet returned
MaxPending == 3
\* reconnect timer callbacks that have not yet returned
MaxCycles == 2
\* native clients left initialised without a reference to them
MaxLeaked == 1
\* torn-down native clients that still hold a listener of the gateway
MaxStale == 1
\* the latest time of the clock, in ms
MaxNow == 750000
MaxHandlers == 2

\* ------------------------------------------------------------- constants
MAX_RECONNECT_DELAY_MS == 30000
SETTLE_DELAY_MS == 1000
\* 5 minutes, in ms
MESSAGE_DEDUP_TTL == 5 * 60 * 1000

NoClient == 0
Null == "null"

\* the five SDK events a session subscribes to, in the order stopInternal
\* unsubscribes them
ListenerOrder ==
  <<"receiveMessages", "loginStatus", "kickedOffline", "loginFailed", "disconnected">>

Listeners == {ListenerOrder[i] : i \in 1..Len(ListenerOrder)}

\* number of off() calls of stopInternal that return before one raises
\* (Len(ListenerOrder): none raises)
OffOutcomes == {0, 1, Len(ListenerOrder)}

\* what the SDK does inside startInternal's try block
SdkOutcomes == {"ok", "initError", "noServices"}

\* ---------------------------------------------------------------- config
NoConfig ==
  [nul |-> TRUE, enabled |-> FALSE, appKey |-> "", account |-> "", token |-> "",
   accountWhitelist |-> <<>>]

Cfg(enabled, appKey, account, token) ==
  [nul |-> FALSE, enabled |-> enabled, appKey |-> appKey, account |-> account,
   token |-> token, accountWhitelist |-> <<>>]

GoodConfig == Cfg(TRUE, "key", "bot", "tok")

DisabledConfig == Cfg(FALSE, "key", "bot", "tok")

\* the configs the application passes to start()
StartConfigs ==
  { GoodConfig,
    DisabledConfig,
    Cfg(TRUE, "", "bot", "tok"),
    Cfg(TRUE, "key", "", "tok"),
    Cfg(TRUE, "key", "bot", "") }

\* the partial configs the application passes to updateConfig()
Partials == { [accountWhitelist |-> <<"u1">>], [token |-> "tok2"] }

NoPartial == [f \in {} |-> ""]

\* senders of inbound messages
Senders == {"bot", "u1"}

\* ids of inbound messages
MsgIds == {"m1", "m2"}

\* A string is a sequence of characters.  An account id is one character
\* of an allow-list string, next to the comma and the blank.
Whitespace == {" ", "\n"}

\* the allow-list strings the application configures: none, one account,
\* two accounts with blanks around them, and a string with no entry
AllowLists ==
  { <<>>,
    <<"u1">>,
    <<" ", "u1", " ", ",", ",", " ", "u2">>,
    <<" ", ",", " ">> }

AllowListPartials == { [accountWhitelist |-> a] : a \in AllowLists }

\* the texts and chunk sizes splitMessageIntoChunks is called with
MaxText == 5
MaxChunk == 4
Characters == {"a", " ", "\n"}

RECURSIVE Strings(_)
Strings(n) ==
  IF n = 0 THEN {<<>>}
  ELSE Strings(n - 1) \cup {Append(s, c) : s \in {t \in Strings(n - 1) : Len(t) = n - 1},
                                          c \in Characters}

\* the texts of replies, marker-stripped: the empty text, a blank, a short
\* text, a text one character longer than a message may be, and the apology
MAX_MESSAGE_LENGTH == 5000
ReplyText(text) ==
  CASE text = "" -> <<>>
    [] text = " " -> <<" ">>
    [] text = "long" -> [i \in 1..(MAX_MESSAGE_LENGTH + 1) |-> "a"]
    [] OTHER -> <<"o", "k">>

\* no call of splitMessageIntoChunks
NoChunking ==
  [text |-> <<>>, maxLength |-> 0, chunks |-> <<>>, remaining |-> <<>>, pc |-> "none"]

\* an inbound message as the SDK hands it over.  conversationId is the id
\* split at '|', messageType the V2NIMMessageType number, attachUrl the url
\* of the parsed attachment or "".
Message(senderId, msgId, conversationId, messageType, text, attachUrl) ==
  [senderId |-> senderId, msgId |-> msgId, conversationId |-> conversationId,
   messageType |-> messageType, text |-> text, attachUrl |-> attachUrl]

\* conversation ids {appId}|{typeNum}|{targetId} of a direct, a team and a
\* superTeam conversation, and the id of a message that carries none
P2pConversation == <<"app", 1, "u1">>
ConversationIds == { P2pConversation, <<"app", 2, "t1">>, <<"app", 3, "t1">>, <<"">> }

\* an inbound text message of a direct conversation
Msg(senderId, msgId) == Message(senderId, msgId, P2pConversation, 0, <<"h", "i">>, "")

NoMsg == Message("", "", <<"">>, 0, <<>>, "")

\* the clock advances in steps of half the dedup TTL, so that an entry is
\* seen at an age of exactly the TTL and at the first age beyond it
ClockStep == 150000

\* ---------------------------------------------------------------- status
DEFAULT_NIM_STATUS ==
  [connected |-> FALSE, startedAt |-> Null, lastError |-> Null, botAccount |-> Null,
   lastInboundAt |-> Null, lastOutboundAt |-> Null]

NoTimer == [armed |-> FALSE, delayMs |-> 0, savedConfig |-> NoConfig]

Min(a, b) == IF a <= b THEN a ELSE b

RECURSIVE Pow2(_)
Pow2(n) == IF n <= 0 THEN 1 ELSE 2 * Pow2(n - 1)

OrNull(s) == IF s = "" THEN Null ELSE s

\* ---------------------------------------------------------------- strings
\* String.prototype.trimStart, trimEnd and trim
RECURSIVE trimStart(_)
trimStart(s) ==
  IF s # <<>> /\ Head(s) \in Whitespace THEN trimStart(Tail(s)) ELSE s

RECURSIVE trimEnd(_)
trimEnd(s) ==
  IF s # <<>> /\ s[Len(s)] \in Whitespace THEN trimEnd(SubSeq(s, 1, Len(s) - 1)) ELSE s

trim(s) == trimEnd(trimStart(s))

\* String.prototype.split(c): the pieces between the occurrences of c
RECURSIVE splitString(_, _)
splitString(s, c) ==
  IF \A i \in 1..Len(s) : s[i] # c
  THEN <<s>>
  ELSE LET i == CHOOSE k \in 1..Len(s) : s[k] = c /\ \A j \in 1..(k - 1) : s[j] # c
       IN  <<SubSeq(s, 1, i - 1)>> \o splitString(SubSeq(s, i + 1, Len(s)), c)

\* accountWhitelist.split(',').map(s => s.trim()).filter(Boolean), as the
\* Set the sender is looked up in
whitelistSet(accountWhitelist) ==
  LET pieces == splitString(accountWhitelist, ",") IN
  { trim(pieces[i]) : i \in 1..Len(pieces) } \ {<<>>}

\* String.prototype.lastIndexOf(c, fromIndex), positions counted from 0
lastIndexOf(s, c, fromIndex) ==
  LET found == {i \in 0..Min(fromIndex, Len(s) - 1) : s[i + 1] = c} IN
  IF found = {} THEN -1 ELSE CHOOSE i \in found : \A j \in found : j <= i

\* String.prototype.slice(from) and slice(0, to), positions counted from 0
sliceFrom(s, from) == SubSeq(s, from + 1, Len(s))
sliceTo(s, to) == SubSeq(s, 1, Min(to, Len(s)))

\* splitMessageIntoChunks up to its loop: the early return, else the locals
\* chunks and remaining
splitBegin(text, maxLength) ==
  IF Len(text) <= maxLength
  THEN [text |-> text, maxLength |-> maxLength, chunks |-> <<text>>,
        remaining |-> text, pc |-> "returned"]
  ELSE [text |-> text, maxLength |-> maxLength, chunks |-> <<>>,
        remaining |-> text, pc |-> "loop"]

\* the split position that prefers the blank to the newline
splitIndexOf_blankFirst(remaining, maxLength) ==
  LET blank == lastIndexOf(remaining, " ", maxLength)
      newline == IF blank = -1 \/ 2 * blank < maxLength
                 THEN lastIndexOf(remaining, "\n", maxLength)
                 ELSE blank
  IN  IF newline = -1 \/ 2 * newline < maxLength THEN maxLength ELSE newline

\* the position the loop body splits remaining at
splitIndexOf(remaining, maxLength) ==
  LET newline == lastIndexOf(remaining, "\n", maxLength)
      blank == IF newline = -1 \/ 2 * newline < maxLength
               THEN lastIndexOf(remaining, " ", maxLength)
               ELSE newline
  IN  IF blank = -1 \/ 2 * blank < maxLength THEN maxLength ELSE blank

\* the loop body that splits at the blank or newline wherever it lies
splitIteration_anySplitPoint(c) ==
  IF Len(c.remaining) = 0
  THEN [c EXCEPT !.pc = "returned"]
  ELSE IF Len(c.remaining) <= c.maxLength
  THEN [c EXCEPT !.chunks = Append(@, c.remaining), !.pc = "returned"]
  ELSE LET newline == lastIndexOf(c.remaining, "\n", c.maxLength)
           blank == IF newline = -1 THEN lastIndexOf(c.remaining, " ", c.maxLength)
                    ELSE newline
           splitIndex == IF blank = -1 THEN c.maxLength ELSE blank
       IN  [c EXCEPT !.chunks = Append(@, sliceTo(c.remaining, splitIndex)),
                     !.remaining = trimStart(sliceFrom(c.remaining, splitIndex))]

\* the loop body that drops the character at the split position, whatever it is
splitIteration_dropsSplitChar(c) ==
  IF Len(c.remaining) = 0
  THEN [c EXCEPT !.pc = "returned"]
  ELSE IF Len(c.remaining) <= c.maxLength
  THEN [c EXCEPT !.chunks = Append(@, c.remaining), !.pc = "returned"]
  ELSE LET splitIndex == splitIndexOf(c.remaining, c.maxLength) IN
       [c EXCEPT !.chunks = Append(@, sliceTo(c.remaining, splitIndex)),
                 !.remaining = Tail(sliceFrom(c.remaining, splitIndex))]

\* one evaluation of the loop condition and, if it holds, of the loop body
splitIteration(c) ==
  IF Len(c.remaining) = 0
  THEN [c EXCEPT !.pc = "returned"]
  ELSE IF Len(c.remaining) <= c.maxLength
  THEN [c EXCEPT !.chunks = Append(@, c.remaining), !.pc = "returned"]
  ELSE LET splitIndex == splitIndexOf(c.remaining, c.maxLength) IN
       [c EXCEPT !.chunks = Append(@, sliceTo(c.remaining, splitIndex)),
                 !.remaining = trimStart(sliceFrom(c.remaining, splitIndex))]

RECURSIVE splitLoop(_)
splitLoop(c) == IF c.pc = "returned" THEN c.chunks ELSE splitLoop(splitIteration(c))

splitMessageIntoChunks(text, maxLength) == splitLoop(splitBegin(text, maxLength))

\* convertMessageType
convertMessageType(messageType) ==
  CASE messageType = 0 -> "text"
    [] messageType = 1 -> "image"
    [] messageType = 2 -> "audio"
    [] messageType = 3 -> "video"
    [] messageType = 4 -> "geo"
    [] messageType = 5 -> "notification"
    [] messageType = 6 -> "file"
    [] messageType = 10 -> "tip"
    [] messageType = 11 -> "robot"
    [] messageType = 100 -> "custom"
    [] OTHER -> "unknown"

\* parseConversationId(conversationId).sessionType, conversationId given as
\* its parts between the '|'
parseConversationId(parts) ==
  IF Len(parts) >= 3
  THEN (IF parts[2] = 1 THEN "p2p" ELSE IF parts[2] = 2 THEN "team" ELSE "p2p")
  ELSE "p2p"

VARIABLES
  v2Client,          \* the native client the gateway references, or NoClient
  loginService,      \* the client whose login service is referenced
  messageService,    \* the client whose message service is referenced
  bound,             \* the session whose five bound callbacks are referenced
  config,            \* stored config, or NoConfig
  status,            \* NimGatewayStatus
  lastSenderId,
  reconnectTimer,    \* the pending reconnect timer, or NoTimer
  reconnectAttempts,
  cleanupInterval,   \* TRUE while the 24h media cleanup interval is set
  lifecyclePromise,  \* id of the promise at the tail of the lifecycle chain
  stopRequested,
  unsettled,         \* ids of the lifecycle promises not yet resolved
  calls,             \* start()/stop() invocations that have not returned
  cycles,            \* reconnect timer callbacks that have not returned
  sdk,               \* the native clients: state, registered listeners
  appTurn,           \* application code may run before the next macrotask
  processedMessages, \* the dedup cache: message id -> time first seen
  now,               \* Date.now()
  stopReturned,      \* an external stop() returned, no external start() since it was called
  intervals,         \* the 24h media cleanup timers that are live
  chunking,          \* a call of splitMessageIntoChunks: its arguments and locals
  onMessageCallback, \* a message callback is set
  handlers,          \* the calls of handleIncomingMessage that have not returned
  timeouts,          \* the reconnect timeouts that are live
  last               \* the step taken last: what ran, what it returned and emitted

gateway ==
  <<v2Client, loginService, messageService, bound, config, status, lastSenderId,
    reconnectTimer, reconnectAttempts, cleanupInterval, lifecyclePromise,
    stopRequested>>

vars ==
  <<v2Client, loginService, messageService, bound, config, status, lastSenderId,
    reconnectTimer, reconnectAttempts, cleanupInterval, lifecyclePromise,
    stopRequested, unsettled, calls, cycles, sdk, appTurn, processedMessages, now,
    stopReturned, intervals, chunking, onMessageCallback, handlers, timeouts, last>>

\* The state as one record, so that the code's methods are functions on it
\* and a handler is the composition of the methods it calls.  thrown is the
\* error raised by the method that ran last, emitted the events emitted so
\* far in the current step.
World ==
  [v2Client |-> v2Client, loginService |-> loginService,
   messageService |-> messageService, bound |-> bound, config |-> config,
   status |-> status, lastSenderId |-> lastSenderId,
   reconnectTimer |-> reconnectTimer, reconnectAttempts |-> reconnectAttempts,
   cleanupInterval |-> cleanupInterval, lifecyclePromise |-> lifecyclePromise,
   stopRequested |-> stopRequested, unsettled |-> unsettled, calls |-> calls,
   cycles |-> cycles, sdk |-> sdk, appTurn |-> appTurn,
   processedMessages |-> processedMessages, now |-> now,
   stopReturned |-> stopReturned, intervals |-> intervals,
   chunking |-> chunking,
   onMessageCallback |-> onMessageCallback,
   handlers |-> handlers,
   timeouts |-> timeouts,
   thrown |-> "none", emitted |-> <<>>]

\* The smallest identifier not in use.  Identifiers only tell promises,
\* cycles and clients apart, so one that is free again is used again.
Fresh(used) == CHOOSE i \in 1..(Cardinality(used) + 1) : i \notin used

\* A promise that has settled is written 0: every settled promise behaves
\* alike for the call that awaits it.
SettledPromise == 0

\* A client that is neither referenced nor initialised and holds no
\* listener can no longer act; it is dropped from the state.
collected(w) ==
  [c \in {d \in DOMAIN w.sdk :
            d = w.v2Client \/ w.sdk[d].st = "inited" \/ w.sdk[d].ls # {}}
     |-> w.sdk[c]]

leaked(w) == {c \in DOMAIN w.sdk : w.sdk[c].st = "inited" /\ c # w.v2Client}

stale(w) == {c \in DOMAIN w.sdk : w.sdk[c].st = "uninited" /\ w.sdk[c].ls # {}}

Apply(w, step) ==
  /\ v2Client' = w.v2Client
  /\ loginService' = w.loginService
  /\ messageService' = w.messageService
  /\ bound' = w.bound
  /\ config' = w.config
  /\ status' = w.status
  /\ lastSenderId' = w.lastSenderId
  /\ reconnectTimer' = w.reconnectTimer
  /\ reconnectAttempts' = w.reconnectAttempts
  /\ cleanupInterval' = w.cleanupInterval
  /\ lifecyclePromise' = w.lifecyclePromise
  /\ stopRequested' = w.stopRequested
  /\ unsettled' = w.unsettled
  /\ calls' = w.calls
  /\ cycles' = w.cycles
  /\ sdk' = collected(w)
  /\ appTurn' = w.appTurn
  /\ processedMessages' = w.processedMessages
  /\ now' = w.now
  /\ stopReturned' = w.stopReturned
  /\ intervals' = w.intervals
  /\ chunking' = w.chunking
  /\ onMessageCallback' = w.onMessageCallback
  /\ handlers' = w.handlers
  /\ timeouts' = w.timeouts
  /\ last' = [step EXCEPT !.thrown = w.thrown, !.emitted = w.emitted]

\* what a step records of itself: the handler that ran, the call or client
\* it belongs to, the reconnect cycle that owns the call, its argument, the
\* message or the partial config it was given
Step(op, call, owner, arg) ==
  [op |-> op, call |-> call, owner |-> owner, arg |-> arg, msg |-> NoMsg,
   partial |-> NoPartial, thrown |-> "none", emitted |-> <<>>]

emit(w, event) == [w EXCEPT !.emitted = Append(@, event)]

Without(f, k) == [x \in (DOMAIN f) \ {k} |-> f[x]]

\* ------------------------------------------------------- lifecycle chain
\* An operation may begin its body when the promise it awaits has settled.
Settled(p) == p \notin unsettled

\* stopInternal between its first statement and its settle delay: one
\* synchronous stretch, shown in steps so that its order can be observed.
SyncPcs == {"remove_listeners", "uninit", "cleanup"}

NoSyncStep == \A p \in DOMAIN calls : calls[p].pc \notin SyncPcs

\* a continuation is ready on the microtask queue
Runnable ==
  \E p \in DOMAIN calls : calls[p].pc = "await_previous" /\ Settled(calls[p].previous)

\* timers and native callbacks run only when no synchronous code and no
\* microtask is pending
MacroTask == NoSyncStep /\ ~Runnable

\* The application calls the gateway from a task of its own, and may go on
\* calling it in the same synchronous stretch or from a continuation of a
\* call of its own that returned, before the next timer or native callback.
AppMayCall == NoSyncStep /\ (appTurn \/ ~Runnable)

\* the state at the start of a timer or native callback
Task == [World EXCEPT !.appTurn = FALSE]

\* the state at the start of a call by the application
App == [World EXCEPT !.appTurn = TRUE]

\* The synchronous head of start() and stop(): take the tail of the chain
\* as previous, put a new pending promise at the tail, then await previous.
chain(w, kind, cfg, owner) ==
  LET p == Fresh(w.unsettled) IN
  [w EXCEPT !.lifecyclePromise = p,
            !.unsettled = @ \cup {p},
            !.calls = @ @@ (p :> [kind |-> kind, cfg |-> cfg,
                                  previous |-> w.lifecyclePromise,
                                  owner |-> owner, pc |-> "await_previous",
                                  clean |-> TRUE])]

\* start() that does not wait for the operation before it
start_noAwait(w, cfg, owner) ==
  [chain(w, "start", cfg, owner) EXCEPT
     !.calls[Fresh(w.unsettled)].previous = SettledPromise]

\* start(config) up to its first await
start(w, cfg, owner) == chain(w, "start", cfg, owner)

\* stop() that does not wait for the operation before it
stop_noAwait(w, owner) ==
  [chain([w EXCEPT !.stopRequested = TRUE], "stop", NoConfig, owner) EXCEPT
     !.calls[Fresh(w.unsettled)].previous = SettledPromise]

\* stop() up to its first await
stop(w, owner) == chain([w EXCEPT !.stopRequested = TRUE], "stop", NoConfig, owner)

\* the finally block of start()/stop(): resolve this call's promise
resolve(w, p) ==
  LET rest == Without(w.calls, p) IN
  [w EXCEPT !.unsettled = @ \ {p},
            !.lifecyclePromise = IF @ = p THEN SettledPromise ELSE @,
            !.calls = [q \in DOMAIN rest |->
                         IF rest[q].previous = p
                         THEN [rest[q] EXCEPT !.previous = SettledPromise]
                         ELSE rest[q]]]

\* ------------------------------------------------------------- methods
cleanup(w) ==
  [w EXCEPT !.v2Client = NoClient, !.loginService = NoClient,
            !.messageService = NoClient, !.cleanupInterval = FALSE,
            !.intervals = IF w.cleanupInterval THEN @ - 1 ELSE @]

\* scheduleReconnect that arms the new timer without clearing the pending one
scheduleReconnect_noClear(w, delayMs) ==
  IF w.config.nul \/ w.stopRequested
  THEN w
  ELSE [w EXCEPT !.reconnectTimer =
                   [armed |-> TRUE, delayMs |-> delayMs, savedConfig |-> w.config],
                 !.timeouts = @ + 1]

scheduleReconnect(w, delayMs) ==
  LET w1 == [w EXCEPT !.reconnectTimer = NoTimer,
                      !.timeouts = IF w.reconnectTimer.armed THEN @ - 1 ELSE @] IN
  IF w1.config.nul \/ w1.stopRequested
  THEN w1
  ELSE [w1 EXCEPT !.reconnectTimer =
                    [armed |-> TRUE, delayMs |-> delayMs, savedConfig |-> w1.config],
                  !.timeouts = @ + 1]

\* a catch block that keeps the references to the client and its services
startFailed_noCleanup(w, message) ==
  [emit(w, "error") EXCEPT
     !.status = [connected |-> FALSE, startedAt |-> Null, lastError |-> message,
                 botAccount |-> IF w.config.nul THEN Null ELSE OrNull(w.config.account),
                 lastInboundAt |-> Null, lastOutboundAt |-> Null],
     !.thrown = message]

\* the catch block of startInternal
startFailed(w, message) ==
  LET savedConfig == w.config
      w1 == [cleanup(w) EXCEPT !.config = savedConfig] IN
  [emit(w1, "error") EXCEPT
     !.status = [connected |-> FALSE, startedAt |-> Null, lastError |-> message,
                 botAccount |-> IF savedConfig.nul THEN Null ELSE OrNull(savedConfig.account),
                 lastInboundAt |-> Null, lastOutboundAt |-> Null],
     !.thrown = message]

\* a try block that marks the gateway connected once login is issued
startSession_connected(w, cfg, outcome) ==
  LET c == Fresh(DOMAIN w.sdk) IN
  [w EXCEPT !.v2Client = c, !.loginService = c, !.messageService = c, !.bound = c,
            !.sdk = @ @@ (c :> [st |-> "inited", ls |-> Listeners, login |-> TRUE]),
            !.status = [connected |-> TRUE, startedAt |-> Null, lastError |-> Null,
                        botAccount |-> cfg.account, lastInboundAt |-> Null,
                        lastOutboundAt |-> Null]]

\* the try block of startInternal: create the client, init it, fetch the
\* services, bind and register the callbacks, issue the login
startSession(w, cfg, outcome) ==
  LET c == Fresh(DOMAIN w.sdk)
      created == [w EXCEPT !.v2Client = c,
                           !.sdk = @ @@ (c :> [st |-> "created", ls |-> {}, login |-> FALSE])]
      inited == [created EXCEPT !.sdk[c].st = "inited"]
      fetched == [inited EXCEPT !.loginService = IF outcome = "noServices" THEN NoClient ELSE c,
                               !.messageService = c]
  IN
  IF outcome = "initError"
  THEN startFailed(created, "NIM SDK V2 initialization failed")
  ELSE IF fetched.loginService = NoClient \/ fetched.messageService = NoClient
  THEN startFailed(fetched, "NIM SDK V2 services not available")
  ELSE [fetched EXCEPT
          !.bound = c,
          !.sdk[c].ls = Listeners,
          !.sdk[c].login = TRUE,
          !.status = [connected |-> FALSE, startedAt |-> Null, lastError |-> Null,
                      botAccount |-> cfg.account, lastInboundAt |-> Null,
                      lastOutboundAt |-> Null]]

\* startInternal that stores the config before it checks the handle
startInternal_configFirst(w, cfg, outcome) ==
  LET w1 == [w EXCEPT !.config = cfg] IN
  IF w.v2Client # NoClient
  THEN [w1 EXCEPT !.thrown = "NIM gateway already running"]
  ELSE IF ~cfg.enabled
  THEN w1
  ELSE IF cfg.appKey = "" \/ cfg.account = "" \/ cfg.token = ""
  THEN [w1 EXCEPT !.thrown = "NIM appKey, account and token are required"]
  ELSE startSession(w1, cfg, outcome)

\* startInternal that checks appKey and account but not the token
startInternal_tokenUnchecked(w, cfg, outcome) ==
  IF w.v2Client # NoClient
  THEN [w EXCEPT !.thrown = "NIM gateway already running"]
  ELSE LET w1 == [w EXCEPT !.config = cfg] IN
       IF ~cfg.enabled
       THEN w1
       ELSE IF cfg.appKey = "" \/ cfg.account = ""
       THEN [w1 EXCEPT !.thrown = "NIM appKey, account and token are required"]
       ELSE startSession(w1, cfg, outcome)

startInternal(w, cfg, outcome) ==
  IF w.v2Client # NoClient
  THEN [w EXCEPT !.thrown = "NIM gateway already running"]
  ELSE LET w1 == [w EXCEPT !.config = cfg] IN
       IF ~cfg.enabled
       THEN w1
       ELSE IF cfg.appKey = "" \/ cfg.account = "" \/ cfg.token = ""
       THEN [w1 EXCEPT !.thrown = "NIM appKey, account and token are required"]
       ELSE startSession(w1, cfg, outcome)

\* ------------------------------------------------------ bound callbacks
\* the login-success branch as it would be without the test of the handle:
\* every login success sets a new interval
boundOnLoginStatus_noHandleTest(w, loginStatus) ==
  IF w.v2Client = NoClient THEN w
  ELSE IF loginStatus = 1
  THEN [emit(emit(w, "connected"), "status") EXCEPT
          !.reconnectAttempts = 0,
          !.status.connected = TRUE,
          !.status.lastError = Null,
          !.status.startedAt = "now",
          !.status.botAccount = IF w.config.nul THEN Null ELSE OrNull(w.config.account),
          !.cleanupInterval = TRUE,
          !.intervals = @ + 1]
  ELSE IF loginStatus = 0
  THEN [emit(emit(w, "disconnected"), "status") EXCEPT !.status.connected = FALSE]
  ELSE w

\* boundOnLoginStatus without its guard against a stale callback
boundOnLoginStatus_noGuard(w, loginStatus) ==
  IF loginStatus = 1
  THEN [emit(emit(w, "connected"), "status") EXCEPT
          !.reconnectAttempts = 0,
          !.status.connected = TRUE,
          !.status.lastError = Null,
          !.status.startedAt = "now",
          !.status.botAccount = IF w.config.nul THEN Null ELSE OrNull(w.config.account),
          !.cleanupInterval = TRUE,
          !.intervals = IF w.cleanupInterval THEN @ ELSE @ + 1]
  ELSE IF loginStatus = 0
  THEN [emit(emit(w, "disconnected"), "status") EXCEPT !.status.connected = FALSE]
  ELSE w

boundOnLoginStatus(w, loginStatus) ==
  IF w.v2Client = NoClient THEN w
  ELSE IF loginStatus = 1
  THEN [emit(emit(w, "connected"), "status") EXCEPT
          !.reconnectAttempts = 0,
          !.status.connected = TRUE,
          !.status.lastError = Null,
          !.status.startedAt = "now",
          !.status.botAccount = IF w.config.nul THEN Null ELSE OrNull(w.config.account),
          !.cleanupInterval = TRUE,
          !.intervals = IF w.cleanupInterval THEN @ ELSE @ + 1]
  ELSE IF loginStatus = 0
  THEN [emit(emit(w, "disconnected"), "status") EXCEPT !.status.connected = FALSE]
  ELSE w

boundOnKickedOffline(w) ==
  IF w.v2Client = NoClient THEN w
  ELSE scheduleReconnect(
         [emit(emit(w, "error"), "status") EXCEPT
            !.status.connected = FALSE, !.status.lastError = "Kicked offline"],
         5000)

loginFailedDelay(attempts) ==
  Min(IF attempts <= 1 THEN 3000 ELSE 3000 * Pow2(attempts - 1), MAX_RECONNECT_DELAY_MS)

boundOnLoginFailed(w) ==
  IF w.v2Client = NoClient THEN w
  ELSE scheduleReconnect(
         [emit(emit(w, "error"), "status") EXCEPT
            !.status.connected = FALSE, !.status.lastError = "Login failed"],
         loginFailedDelay(w.reconnectAttempts))

\* boundOnDisconnected that schedules its reconnect a minute ahead
boundOnDisconnected_late(w) ==
  IF w.v2Client = NoClient THEN w
  ELSE scheduleReconnect(
         [emit(emit(w, "disconnected"), "status") EXCEPT
            !.status.connected = FALSE, !.status.lastError = "Disconnected"],
         60000)

\* boundOnDisconnected without its staleness guard
boundOnDisconnected_noGuard(w) ==
  scheduleReconnect(
    [emit(emit(w, "disconnected"), "status") EXCEPT
       !.status.connected = FALSE, !.status.lastError = "Disconnected"],
    3000)

boundOnDisconnected(w) ==
  IF w.v2Client = NoClient THEN w
  ELSE scheduleReconnect(
         [emit(emit(w, "disconnected"), "status") EXCEPT
            !.status.connected = FALSE, !.status.lastError = "Disconnected"],
         3000)

\* drop the entries older than the TTL
cleanupProcessedMessages(w) ==
  [w EXCEPT !.processedMessages =
     [m \in {x \in DOMAIN @ : ~(w.now - @[x] > MESSAGE_DEDUP_TTL)} |-> @[m]]]

\* isMessageProcessed whose duplicates are stamped again
isMessageProcessed_restamp(w, messageId) ==
  LET w1 == cleanupProcessedMessages(w) IN
  [world |-> [w1 EXCEPT !.processedMessages = (messageId :> w.now) @@ @],
   processed |-> messageId \in DOMAIN w1.processedMessages]

\* isMessageProcessed without the eviction of old entries
isMessageProcessed_noCleanup(w, messageId) ==
  IF messageId \in DOMAIN w.processedMessages
  THEN [world |-> w, processed |-> TRUE]
  ELSE [world |-> [w EXCEPT !.processedMessages = (messageId :> w.now) @@ @],
        processed |-> FALSE]

\* isMessageProcessed(messageId): the state it leaves and what it returns
isMessageProcessed(w, messageId) ==
  LET w1 == cleanupProcessedMessages(w) IN
  IF messageId \in DOMAIN w1.processedMessages
  THEN [world |-> w1, processed |-> TRUE]
  ELSE [world |-> [w1 EXCEPT !.processedMessages = (messageId :> w.now) @@ @],
        processed |-> FALSE]

\* ------------------------------------------------------ outbound replies
\* the reply of a handler that has not called replyFn
NoReply ==
  [to |-> "", text |-> "", chunks |-> 0, markers |-> <<>>, next |-> 1,
   inflight |-> FALSE, paused |-> FALSE, log |-> <<>>, failed |-> <<>>,
   result |-> "none"]

\* the item a reply sends next: a chunk of its text or one of its markers
item(r) == IF r.next <= r.chunks THEN <<"text", r.next>> ELSE <<"media", r.next - r.chunks>>

\* the catch block at the end of handleIncomingMessage
handlerCatches(w) == [w EXCEPT !.thrown = "none"]

\* the awaited callback or apology reply has settled: handleIncomingMessage
\* returns
handlerReturns(w, h) == [handlerCatches(w) EXCEPT !.handlers = Without(@, h)]

\* sendReplyWithMedia returns or raises into replyFn, and replyFn into the
\* callback or into the catch block that sent the apology
replyEnds(w, h, result) ==
  LET w1 == [w EXCEPT !.handlers[h].reply.result = result,
                      !.handlers[h].reply.inflight = FALSE,
                      !.handlers[h].reply.paused = FALSE,
                      !.status.lastOutboundAt = IF result = "done" THEN "now" ELSE @,
                      !.thrown = IF result = "raised" THEN "send failed" ELSE @]
  IN  IF w.handlers[h].pc = "apology" THEN handlerReturns(w1, h) ELSE handlerCatches(w1)

\* the marker loop after the try block of a marker that exists: the pacing
\* delay unless it was the last marker
afterMedia(w, h) ==
  LET r == w.handlers[h].reply IN
  IF r.next < r.chunks + Len(r.markers)
  THEN [w EXCEPT !.handlers[h].reply.next = @ + 1,
                 !.handlers[h].reply.inflight = FALSE,
                 !.handlers[h].reply.paused = TRUE]
  ELSE replyEnds([w EXCEPT !.handlers[h].reply.next = @ + 1], h, "done")

\* the reply runs on to its next await: it calls sendText or sendMedia for
\* the next item, which raises at once without a message service and else
\* awaits the SDK; a marker whose file is missing is skipped
RECURSIVE proceed(_, _)
proceed(w, h) ==
  LET r == w.handlers[h].reply
      attempted == [w EXCEPT !.handlers[h].reply.log = Append(@, item(r)),
                             !.handlers[h].reply.paused = FALSE]
      notReady == [attempted EXCEPT !.handlers[h].reply.failed = Append(@, item(r))]
  IN  IF r.next > r.chunks + Len(r.markers)
      THEN replyEnds(w, h, "done")
      ELSE IF r.next <= r.chunks
      THEN (IF w.messageService = NoClient
            THEN replyEnds(notReady, h, "raised")
            ELSE [attempted EXCEPT !.handlers[h].reply.inflight = TRUE])
      ELSE IF r.markers[r.next - r.chunks] = "missing"
      THEN proceed([w EXCEPT !.handlers[h].reply.next = @ + 1,
                             !.handlers[h].reply.paused = FALSE], h)
      ELSE IF w.messageService = NoClient
      THEN afterMedia(notReady, h)
      ELSE [attempted EXCEPT !.handlers[h].reply.inflight = TRUE]

\* sendLongText after a chunk was sent: the pacing delay if the text has
\* several chunks or markers follow, else the reply is complete
afterText(w, h) ==
  LET r == w.handlers[h].reply
      w1 == [w EXCEPT !.handlers[h].reply.next = @ + 1,
                      !.handlers[h].reply.inflight = FALSE]
  IN  IF r.chunks > 1 \/ r.markers # <<>>
      THEN [w1 EXCEPT !.handlers[h].reply.paused = TRUE]
      ELSE proceed(w1, h)

\* sendCompleted without the try block around sendMedia
sendCompleted_mediaRaises(w, h, outcome) ==
  LET r == w.handlers[h].reply
      w1 == IF outcome = "fail"
            THEN [w EXCEPT !.handlers[h].reply.failed = Append(@, item(r))]
            ELSE w
  IN  IF outcome = "fail"
      THEN replyEnds(w1, h, "raised")
      ELSE IF r.next <= r.chunks THEN afterText(w1, h) ELSE afterMedia(w1, h)

\* the SDK settles the send the reply awaits: sendText raises what the SDK
\* raised, the error of sendMedia is caught in the marker loop
sendCompleted(w, h, outcome) ==
  LET r == w.handlers[h].reply
      w1 == IF outcome = "fail"
            THEN [w EXCEPT !.handlers[h].reply.failed = Append(@, item(r))]
            ELSE w
  IN  IF r.next <= r.chunks
      THEN (IF outcome = "fail" THEN replyEnds(w1, h, "raised") ELSE afterText(w1, h))
      ELSE afterMedia(w1, h)

\* sendLongText(text): how many chunks it sends
chunksOf(text) == Len(splitMessageIntoChunks(ReplyText(text), MAX_MESSAGE_LENGTH))

\* sendReplyWithMedia that sends the stripped text whatever it is
sendReplyWithMedia_textAlways(w, h, stripped, markers) ==
  proceed([w EXCEPT !.handlers[h].reply =
             [NoReply EXCEPT
                !.to = w.handlers[h].msg.senderId,
                !.text = stripped,
                !.markers = markers,
                !.chunks = chunksOf(stripped),
                !.result = "running"]], h)

\* replyFn(text) up to its first await.  markers is parseMediaMarkers(text),
\* stripped is stripMediaMarkers(text, markers), the text itself if it
\* holds no marker.
sendReplyWithMedia(w, h, stripped, markers) ==
  proceed([w EXCEPT !.handlers[h].reply =
             [NoReply EXCEPT
                !.to = w.handlers[h].msg.senderId,
                !.text = stripped,
                !.markers = markers,
                !.chunks = IF markers # <<>> /\ trim(ReplyText(stripped)) = <<>>
                           THEN 0 ELSE chunksOf(stripped),
                !.result = "running"]], h)

\* ------------------------------------------------------ inbound messages
\* inferMediaPlaceholder(messageType), the placeholders put into English
inferMediaPlaceholder(messageType) ==
  CASE messageType = "image" -> "[image]"
    [] messageType = "audio" -> "[voice message]"
    [] messageType = "video" -> "[video]"
    [] messageType = "file" -> "[file]"
    [] OTHER -> "[media message]"

\* handleIncomingMessage from the IMMessage on: the message object, the
\* status, the 'message' event and the call of the callback
deliver(w, h, msg, content, attachments) ==
  LET w1 == [emit(w, "message") EXCEPT !.status.lastInboundAt = "now",
                                       !.lastSenderId = msg.senderId]
  IN  IF w1.onMessageCallback
      THEN [w1 EXCEPT !.handlers =
              (h :> [msg |-> msg, content |-> content, attachments |-> attachments,
                     pc |-> "callback", reply |-> NoReply]) @@ @]
      ELSE [w1 EXCEPT !.handlers = Without(@, h)]

\* deliver that gives up a media message whose download failed
downloaded_dropsFailed(w, h, outcome) ==
  IF outcome = "null"
  THEN handlerReturns(w, h)
  ELSE deliver(w, h, w.handlers[h].msg, w.handlers[h].content, 1)

\* handleIncomingMessage after its await downloadNimMedia: the file is
\* attached if there is one
downloaded(w, h, outcome) ==
  deliver(w, h, w.handlers[h].msg, w.handlers[h].content,
          IF outcome = "file" THEN 1 ELSE 0)

\* handleIncomingMessage after the dedup lookup: the message type, the
\* conversation type, the content, the download
accepted(w, msg) ==
  LET msgType == convertMessageType(msg.messageType)
      h == Fresh(DOMAIN w.handlers)
  IN  IF msgType \notin {"text", "image", "audio", "video", "file"}
      THEN w
      ELSE IF parseConversationId(msg.conversationId) # "p2p"
      THEN w
      ELSE IF msgType = "text"
      THEN (IF trim(msg.text) = <<>> THEN w ELSE deliver(w, h, msg, msg.text, 0))
      ELSE IF msg.attachUrl # ""
      THEN [w EXCEPT !.handlers =
              (h :> [msg |-> msg,
                     content |-> <<inferMediaPlaceholder(msgType), " ", msg.attachUrl>>,
                     attachments |-> 0, pc |-> "download", reply |-> NoReply]) @@ @]
      ELSE deliver(w, h, msg, <<inferMediaPlaceholder(msgType)>>, 0)

\* handleIncomingMessage that looks the id up before it filters the sender
handleIncomingMessage_dedupFirst(w, msg) ==
  LET seen == isMessageProcessed(w, msg.msgId) IN
  IF seen.processed
  THEN seen.world
  ELSE IF ~w.config.nul /\ msg.senderId = w.config.account
  THEN seen.world
  ELSE accepted(seen.world, msg)

\* handleIncomingMessage that compares the sender with the untrimmed pieces
handleIncomingMessage_noTrim(w, msg) ==
  LET pieces == splitString(w.config.accountWhitelist, ",") IN
  IF ~w.config.nul /\ msg.senderId = w.config.account
  THEN w
  ELSE IF ~w.config.nul /\ w.config.accountWhitelist # <<>>
          /\ {pieces[i] : i \in 1..Len(pieces)} \ {<<>>} # {}
          /\ <<msg.senderId>> \notin {pieces[i] : i \in 1..Len(pieces)}
  THEN w
  ELSE LET seen == isMessageProcessed(w, msg.msgId) IN
       IF seen.processed THEN seen.world ELSE accepted(seen.world, msg)

\* handleIncomingMessage up to its first await: the sender filters, the
\* dedup lookup and what follows it
handleIncomingMessage(w, msg) ==
  IF ~w.config.nul /\ msg.senderId = w.config.account
  THEN w
  ELSE IF ~w.config.nul /\ w.config.accountWhitelist # <<>>
          /\ whitelistSet(w.config.accountWhitelist) # {}
          /\ <<msg.senderId>> \notin whitelistSet(w.config.accountWhitelist)
  THEN w
  ELSE LET seen == isMessageProcessed(w, msg.msgId) IN
       IF seen.processed THEN seen.world ELSE accepted(seen.world, msg)

\* the catch block around the callback: handleIncomingMessage that lets the
\* error of the callback propagate
callbackThrew_noCatch(w, h) ==
  [w EXCEPT !.handlers = Without(@, h), !.thrown = "callback failed"]

\* the callback raised: the catch block around it calls replyFn with the
\* apology, which holds the error text and no marker
callbackThrew(w, h) ==
  sendReplyWithMedia([w EXCEPT !.handlers[h].pc = "apology"], h, "sorry", <<>>)

boundOnReceiveMessages(w, msg) ==
  IF w.v2Client = NoClient THEN w ELSE handleIncomingMessage(w, msg)

Constructed ==
  /\ v2Client = NoClient
  /\ loginService = NoClient
  /\ messageService = NoClient
  /\ bound = NoClient
  /\ config = NoConfig
  /\ status = DEFAULT_NIM_STATUS
  /\ lastSenderId = Null
  /\ reconnectTimer = NoTimer
  /\ reconnectAttempts = 0
  /\ cleanupInterval = FALSE
  /\ lifecyclePromise = 0
  /\ stopRequested = FALSE
  /\ unsettled = {}
  /\ calls = <<>>
  /\ cycles = <<>>
  /\ sdk = <<>>
  /\ appTurn = FALSE
  /\ processedMessages = <<>>
  /\ now = 0
  /\ stopReturned = FALSE
  /\ intervals = 0
  /\ onMessageCallback = FALSE
  /\ handlers = <<>>
  /\ timeouts = 0
  /\ last = Step("constructor", 0, 0, "")

Init == Constructed /\ chunking = NoChunking

\* a freshly constructed gateway and a call of splitMessageIntoChunks
InitChunks ==
  /\ Constructed
  /\ \E text \in Strings(MaxText), maxLength \in 1..MaxChunk :
        chunking = splitBegin(text, maxLength)

\* ------------------------------------------------- reconnect timer callback
\* the timer callback after its await this.stop(): abandon if the config was
\* cleared, else clear stopRequested and call start(savedConfig)
afterStop(w, k) ==
  IF w.config.nul
  THEN [w EXCEPT !.cycles = Without(@, k)]
  ELSE start([w EXCEPT !.stopRequested = FALSE, !.cycles[k].pc = "await_start"],
             w.cycles[k].savedConfig, k)

nextDelay(attempts, delayMs) ==
  Min(IF attempts <= 1 THEN 2000 ELSE delayMs * 2, MAX_RECONNECT_DELAY_MS)

\* the timer callback after its await this.start(savedConfig): done if it
\* returned, the catch block if it raised
\* the timer callback whose catch block schedules no further retry
afterStart_givesUp(w, k) == [w EXCEPT !.cycles = Without(@, k)]

afterStart(w, k) ==
  LET done == [w EXCEPT !.cycles = Without(@, k)] IN
  IF w.thrown = "none" \/ w.stopRequested
  THEN done
  ELSE scheduleReconnect(done, nextDelay(w.reconnectAttempts, w.cycles[k].delayMs))

\* a start()/stop() call returns to its caller: the application, or the
\* reconnect timer callback that awaits it
returned(w, call) ==
  IF call.owner # 0
  THEN IF call.kind = "stop" THEN afterStop(w, call.owner) ELSE afterStart(w, call.owner)
  ELSE IF call.kind = "stop" /\ call.clean
  THEN [w EXCEPT !.stopReturned = TRUE, !.appTurn = TRUE]
  ELSE [w EXCEPT !.appTurn = TRUE]

\* the timer callback up to its first await
timerCallback(w) ==
  LET w1 == [w EXCEPT !.reconnectTimer = NoTimer, !.timeouts = @ - 1]
      k == Fresh(DOMAIN w.cycles) IN
  IF w.reconnectTimer.savedConfig.nul \/ w1.stopRequested
  THEN w1
  ELSE stop([w1 EXCEPT !.reconnectAttempts = @ + 1,
                       !.cycles = @ @@ (k :> [delayMs |-> w.reconnectTimer.delayMs,
                                              savedConfig |-> w.reconnectTimer.savedConfig,
                                              pc |-> "await_stop",
                                              userStop |-> FALSE])],
            k)

\* --------------------------------------------------------- stopInternal
\* stopInternal up to its check of the handle
stopInternalHead(w) ==
  [w EXCEPT !.reconnectTimer = NoTimer,
            !.timeouts = IF w.reconnectTimer.armed THEN @ - 1 ELSE @,
            !.reconnectAttempts = 0]

\* STEP 1: the off() calls, the first n of which return; then the bound
\* references are nulled
offTarget(w, i) == IF i = 1 THEN w.messageService ELSE w.loginService

\* stopInternal without STEP 1
removeListeners_none(w, n) == [w EXCEPT !.bound = NoClient]

removeListeners(w, n) ==
  LET off(i) == i <= n /\ w.bound # NoClient /\ offTarget(w, i) = w.bound
      gone(c) == {ListenerOrder[i] : i \in {j \in 1..Len(ListenerOrder) : off(j) /\ offTarget(w, j) = c}}
  IN [w EXCEPT !.sdk = [c \in DOMAIN w.sdk |-> [w.sdk[c] EXCEPT !.ls = @ \ gone(c)]],
               !.bound = NoClient]

\* STEP 2: uninit() on the handle
uninit(w) ==
  IF w.v2Client # NoClient
  THEN [w EXCEPT !.sdk[w.v2Client].st = "uninited"]
  ELSE w

\* STEP 3: drop the references, reset the status, emit 'disconnected'
stopInternalTail(w) ==
  [emit(cleanup(w), "disconnected") EXCEPT
     !.status = [connected |-> FALSE, startedAt |-> Null, lastError |-> Null,
                 botAccount |-> w.status.botAccount, lastInboundAt |-> Null,
                 lastOutboundAt |-> Null]]

setPc(w, p, pc) == [w EXCEPT !.calls[p].pc = pc]

\* --------------------------------------------------------------- public
\* reconnectIfNeeded without its check of stopRequested
reconnectIfNeeded_ignoresStop(w) ==
  IF ~w.config.nul /\ (w.v2Client = NoClient \/ ~w.status.connected)
  THEN scheduleReconnect(w, 0)
  ELSE w

reconnectIfNeeded(w) ==
  IF w.stopRequested THEN w
  ELSE IF ~w.config.nul /\ (w.v2Client = NoClient \/ ~w.status.connected)
  THEN scheduleReconnect(w, 0)
  ELSE w

\* updateConfig that stores the partial as the config
updateConfig_replace(w, partial) ==
  IF w.config.nul THEN w
  ELSE [w EXCEPT !.config =
          [f \in DOMAIN w.config |->
             IF f \in DOMAIN partial THEN partial[f] ELSE Cfg(FALSE, "", "", "")[f]]]

updateConfig(w, partial) ==
  IF w.config.nul THEN w
  ELSE [w EXCEPT !.config =
          [f \in DOMAIN w.config |->
             IF f \in DOMAIN partial THEN partial[f] ELSE w.config[f]]]

\* --------------------------------------------------------------- actions
\* the application calls start(cfg)
ExtStart(cfg) ==
  /\ Cardinality(DOMAIN calls) < MaxPending
  /\ AppMayCall
  /\ LET w == [App EXCEPT
                 !.stopReturned = FALSE,
                 !.calls = [p \in DOMAIN calls |->
                              IF calls[p].kind = "stop" /\ calls[p].owner = 0
                              THEN [calls[p] EXCEPT !.clean = FALSE]
                              ELSE calls[p]]]
     IN Apply(start(w, cfg, 0), Step("start", Fresh(unsettled), 0, ""))

\* the application calls stop()
ExtStop ==
  /\ Cardinality(DOMAIN calls) < MaxPending
  /\ AppMayCall
  /\ LET w == [App EXCEPT
                 !.cycles = [k \in DOMAIN cycles |->
                               IF cycles[k].pc = "await_stop"
                               THEN [cycles[k] EXCEPT !.userStop = TRUE]
                               ELSE cycles[k]]]
     IN Apply(stop(w, 0), Step("stop", Fresh(unsettled), 0, ""))

\* start() after await previous: clear stopRequested, run startInternal,
\* resolve, return to the caller
RunStart(p, outcome) ==
  /\ p \in DOMAIN calls
  /\ calls[p].kind = "start"
  /\ calls[p].pc = "await_previous"
  /\ Settled(calls[p].previous)
  /\ NoSyncStep
  /\ outcome = "noServices" => Cardinality(leaked(World)) < MaxLeaked
  /\ LET w1 == [World EXCEPT !.stopRequested = FALSE]
         w2 == startInternal(w1, calls[p].cfg, outcome)
     IN Apply(returned(resolve(w2, p), calls[p]),
              Step("startInternal", p, calls[p].owner, ""))

\* stopInternal without its check of the handle
RunStop_noCheck(p) ==
  /\ p \in DOMAIN calls
  /\ calls[p].kind = "stop"
  /\ calls[p].pc = "await_previous"
  /\ Settled(calls[p].previous)
  /\ NoSyncStep
  /\ Apply(setPc(stopInternalHead(World), p, "remove_listeners"),
           Step("stopInternal", p, calls[p].owner, "stopping"))

\* stop() after await previous: stopInternal up to its check of the handle;
\* without a handle it returns at once
RunStop(p) ==
  /\ p \in DOMAIN calls
  /\ calls[p].kind = "stop"
  /\ calls[p].pc = "await_previous"
  /\ Settled(calls[p].previous)
  /\ NoSyncStep
  /\ LET w1 == stopInternalHead(World) IN
     IF w1.v2Client = NoClient
     THEN Apply(returned(resolve(w1, p), calls[p]),
                Step("stopInternal", p, calls[p].owner, "not running"))
     ELSE Apply(setPc(w1, p, "remove_listeners"),
                Step("stopInternal", p, calls[p].owner, "stopping"))

StopRemoveListeners(p, n) ==
  /\ p \in DOMAIN calls
  /\ calls[p].pc = "remove_listeners"
  /\ n < Len(ListenerOrder) => Cardinality(stale(World)) < MaxStale
  /\ Apply(setPc(removeListeners(World, n), p, "uninit"),
           Step("removeListeners", p, calls[p].owner,
                IF n = Len(ListenerOrder) THEN "removed" ELSE "raised"))

StopUninit(p) ==
  /\ p \in DOMAIN calls
  /\ calls[p].pc = "uninit"
  /\ Apply(setPc(uninit(World), p, "cleanup"), Step("uninit", p, calls[p].owner, ""))

StopCleanup(p) ==
  /\ p \in DOMAIN calls
  /\ calls[p].pc = "cleanup"
  /\ Apply(setPc(stopInternalTail(World), p, "settle"),
           Step("cleanup", p, calls[p].owner,
                IF cleanupInterval THEN "interval cleared" ELSE ""))

\* the settle delay of stopInternal elapses: resolve, return to the caller
StopSettled(p) ==
  /\ p \in DOMAIN calls
  /\ calls[p].pc = "settle"
  /\ MacroTask
  /\ Apply(returned(resolve(Task, p), calls[p]),
           Step("settled", p, calls[p].owner, ""))

\* the reconnect timer fires
TimerFires ==
  /\ reconnectTimer.armed
  /\ MacroTask
  /\ stopRequested \/ Cardinality(DOMAIN cycles) < MaxCycles
  /\ Apply(timerCallback(Task),
           Step("timer", 0, 0, IF stopRequested THEN "bail" ELSE "reconnect"))

\* the SDK invokes a registered listener of client c
OnLoginStatus(c, loginStatus) ==
  /\ MacroTask
  /\ c \in DOMAIN sdk
  /\ "loginStatus" \in sdk[c].ls
  /\ Apply(boundOnLoginStatus(Task, loginStatus),
           Step("loginStatus", c, 0, IF v2Client = NoClient THEN "stale" ELSE "live"))

OnKickedOffline(c) ==
  /\ MacroTask
  /\ c \in DOMAIN sdk
  /\ "kickedOffline" \in sdk[c].ls
  /\ Apply(boundOnKickedOffline(Task),
           Step("kickedOffline", c, 0, IF v2Client = NoClient THEN "stale" ELSE "live"))

OnLoginFailed(c) ==
  /\ MacroTask
  /\ c \in DOMAIN sdk
  /\ "loginFailed" \in sdk[c].ls
  /\ Apply(boundOnLoginFailed(Task),
           Step("loginFailed", c, 0, IF v2Client = NoClient THEN "stale" ELSE "live"))

OnDisconnected(c) ==
  /\ MacroTask
  /\ c \in DOMAIN sdk
  /\ "disconnected" \in sdk[c].ls
  /\ Apply(boundOnDisconnected(Task),
           Step("disconnected", c, 0, IF v2Client = NoClient THEN "stale" ELSE "live"))

OnReceiveMessages(c, msg) ==
  /\ MacroTask
  /\ Cardinality(DOMAIN handlers) < MaxHandlers
  /\ c \in DOMAIN sdk
  /\ "receiveMessages" \in sdk[c].ls
  /\ Apply(boundOnReceiveMessages(Task, msg),
           [Step("receiveMessages", c, 0, IF v2Client = NoClient THEN "stale" ELSE "live")
              EXCEPT !.msg = msg])

HandlerIds == 1..MaxHandlers

\* the application calls setMessageCallback(callback)
SetMessageCallback ==
  /\ AppMayCall
  /\ ~onMessageCallback
  /\ Apply([App EXCEPT !.onMessageCallback = TRUE], Step("setMessageCallback", 0, 0, ""))

\* downloadNimMedia returns the file it stored, or null
DownloadDone(h, outcome) ==
  /\ MacroTask
  /\ h \in DOMAIN handlers
  /\ handlers[h].pc = "download"
  /\ Apply(downloaded(Task, h, outcome), Step("downloaded", h, 0, outcome))

\* the callback calls replyFn(text) and awaits it
CallbackReplies(h, stripped, markers) ==
  /\ MacroTask
  /\ h \in DOMAIN handlers
  /\ handlers[h].pc = "callback"
  /\ handlers[h].reply.result = "none"
  /\ Apply(sendReplyWithMedia(Task, h, stripped, markers), Step("replyFn", h, 0, stripped))

\* the SDK reports the outcome of the send a reply awaits
SendCompletes(h, outcome) ==
  /\ MacroTask
  /\ h \in DOMAIN handlers
  /\ handlers[h].reply.inflight
  /\ Apply(sendCompleted(Task, h, outcome), Step("sendCompleted", h, 0, outcome))

\* the 100 ms between two messages of a reply are over
PacingDelayEnds(h) ==
  /\ MacroTask
  /\ h \in DOMAIN handlers
  /\ handlers[h].reply.paused
  /\ Apply(proceed(Task, h), Step("pacingDelay", h, 0, ""))

\* the callback returns, with or without having replied
CallbackReturns(h) ==
  /\ MacroTask
  /\ h \in DOMAIN handlers
  /\ handlers[h].pc = "callback"
  /\ handlers[h].reply.result # "running"
  /\ Apply(handlerReturns(Task, h), Step("callbackReturned", h, 0, ""))

\* the callback raises: an error of its own or the one replyFn raised
CallbackThrows(h) ==
  /\ MacroTask
  /\ h \in DOMAIN handlers
  /\ handlers[h].pc = "callback"
  /\ handlers[h].reply.result # "running"
  /\ Apply(callbackThrew(Task, h), Step("callbackThrew", h, 0, ""))

\* time passes
Tick ==
  /\ MacroTask
  /\ now + ClockStep <= MaxNow
  /\ Apply([Task EXCEPT !.now = @ + ClockStep], Step("tick", 0, 0, ""))

\* splitMessageIntoChunks evaluates its loop condition and runs its loop body
SplitIterate ==
  /\ chunking.pc = "loop"
  /\ Apply([World EXCEPT !.chunking = splitIteration(@)],
           Step("splitIteration", 0, 0, ""))

\* the application calls reconnectIfNeeded()
ReconnectIfNeeded ==
  /\ AppMayCall
  /\ Apply(reconnectIfNeeded(App), Step("reconnectIfNeeded", 0, 0, ""))

\* the application calls updateConfig(partial)
UpdateConfig(partial) ==
  /\ AppMayCall
  /\ Apply(updateConfig(App, partial),
           [Step("updateConfig", 0, 0, "") EXCEPT !.partial = partial])

Promises == 1..(MaxPending + MaxCycles)

Clients == 1..(MaxLeaked + MaxStale + 1)

\* the start()/stop() machinery, the application passing configs of cfgs
Lifecycle(cfgs) ==
  \/ \E cfg \in cfgs : ExtStart(cfg)
  \/ ExtStop
  \/ \E p \in Promises, outcome \in SdkOutcomes : RunStart(p, outcome)
  \/ \E p \in Promises : RunStop(p)
  \/ \E p \in Promises, n \in OffOutcomes : StopRemoveListeners(p, n)
  \/ \E p \in Promises : StopUninit(p)
  \/ \E p \in Promises : StopCleanup(p)
  \/ \E p \in Promises : StopSettled(p)

\* the login and connection events of the SDK, and what they set off
Reconnect ==
  \/ TimerFires
  \/ \E c \in Clients, loginStatus \in {0, 1, 2} : OnLoginStatus(c, loginStatus)
  \/ \E c \in Clients : OnKickedOffline(c)
  \/ \E c \in Clients : OnLoginFailed(c)
  \/ \E c \in Clients : OnDisconnected(c)
  \/ ReconnectIfNeeded

\* inbound messages with ids of ids
Inbound(ids) ==
  \E c \in Clients, senderId \in Senders, msgId \in ids :
     OnReceiveMessages(c, Msg(senderId, msgId))

HotUpdate == \E partial \in Partials : UpdateConfig(partial)

\* The gateway started with an enabled or a disabled config, under every
\* interleaving of calls, timers and connection events.
Next == Lifecycle({GoodConfig, DisabledConfig}) \/ Reconnect

Spec == Init /\ [][Next]_vars

\* The same with one config and inbound messages.
NextInbound == Lifecycle({GoodConfig}) \/ Reconnect \/ Inbound({"m1"})

SpecInbound == Init /\ [][NextInbound]_vars

\* start() with every config of StartConfigs, without connection events.
NextConfigs == Lifecycle(StartConfigs)

SpecConfigs == Init /\ [][NextConfigs]_vars

\* start(GoodConfig), stop(), start(GoodConfig) called in one synchronous
\* stretch on a new gateway, the SDK succeeding; then the bodies run, with
\* every interleaving of timers and connection events.
ScriptDone ==
  /\ last.op \notin {"constructor", "stop"}
  /\ ~(last.op = "start" /\ Cardinality(DOMAIN calls) = 1)

ToggleCalls ==
  \/ last.op = "constructor" /\ ExtStart(GoodConfig)
  \/ last.op = "start" /\ Cardinality(DOMAIN calls) = 1 /\ ExtStop
  \/ last.op = "stop" /\ Cardinality(DOMAIN calls) = 2 /\ ExtStart(GoodConfig)

ToggleBodies ==
  \/ ScriptDone /\ \E p \in Promises : RunStart(p, "ok")
  \/ ScriptDone /\ \E p \in Promises : RunStop(p)
  \/ ScriptDone /\ \E p \in Promises, n \in OffOutcomes : StopRemoveListeners(p, n)
  \/ ScriptDone /\ \E p \in Promises : StopUninit(p)
  \/ ScriptDone /\ \E p \in Promises : StopCleanup(p)
  \/ ScriptDone /\ \E p \in Promises : StopSettled(p)

ToggleEvents ==
  \/ ScriptDone /\ TimerFires
  \/ ScriptDone /\ \E c \in Clients, loginStatus \in {0, 1, 2} : OnLoginStatus(c, loginStatus)
  \/ ScriptDone /\ \E c \in Clients : OnKickedOffline(c)
  \/ ScriptDone /\ \E c \in Clients : OnLoginFailed(c)
  \/ ScriptDone /\ \E c \in Clients : OnDisconnected(c)
  \/ ScriptDone /\ ReconnectIfNeeded

\* A gateway that is started and not stopped: inbound messages, hot config
\* updates and the passing of time, with login and kicked-offline events.
NextMessages ==
  \/ ExtStart(GoodConfig)
  \/ \E p \in Promises : RunStart(p, "ok")
  \/ \E c \in Clients, loginStatus \in {0, 1} : OnLoginStatus(c, loginStatus)
  \/ \E c \in Clients : OnKickedOffline(c)
  \/ Inbound(MsgIds)
  \/ HotUpdate
  \/ Tick

SpecMessages == Init /\ [][NextMessages]_vars

\* the marker-stripped texts and the markers of the replies of the callback
ReplyTexts == {" ", "ok", "long"}
MarkerLists == {<<>>, <<"missing", "file">>, <<"file", "file">>}

\* a text message and an image message with a url, of a direct conversation
ReplyMessages ==
  { Msg("u1", "m1"), Message("u1", "m2", P2pConversation, 1, <<>>, "url") }

\* A gateway that is started and stopped once, with a callback that replies
\* to what it receives; the downloads and the sends succeed or fail.
NextReplies ==
  \/ calls = <<>> /\ v2Client = NoClient /\ ~stopReturned /\ ExtStart(GoodConfig)
  \/ calls = <<>> /\ v2Client # NoClient /\ ExtStop
  \/ \E p \in Promises : RunStart(p, "ok")
  \/ \E p \in Promises : RunStop(p)
  \/ \E p \in Promises : StopRemoveListeners(p, 5)
  \/ \E p \in Promises : StopUninit(p)
  \/ \E p \in Promises : StopCleanup(p)
  \/ \E p \in Promises : StopSettled(p)
  \/ \E c \in Clients : OnLoginStatus(c, 1)
  \/ SetMessageCallback
  \/ \E c \in Clients, msg \in ReplyMessages : OnReceiveMessages(c, msg)
  \/ \E h \in HandlerIds, outcome \in {"file", "null"} : DownloadDone(h, outcome)
  \/ \E h \in HandlerIds, stripped \in ReplyTexts, markers \in MarkerLists :
        CallbackReplies(h, stripped, markers)
  \/ \E h \in HandlerIds, outcome \in {"ok", "fail"} : SendCompletes(h, outcome)
  \/ \E h \in HandlerIds : PacingDelayEnds(h)
  \/ \E h \in HandlerIds : CallbackReturns(h)
  \/ \E h \in HandlerIds : CallbackThrows(h)

SpecReplies == Init /\ [][NextReplies]_vars

\* text messages of a direct conversation from the bot itself and three
\* other accounts
FilterMessages == { Msg(senderId, msgId) : senderId \in {"bot", "u1", "u2", "u3"},
                                          msgId \in MsgIds }

\* A gateway started once, with a callback that returns; the application
\* updates the allow-list while messages arrive.
NextFilters ==
  \/ calls = <<>> /\ v2Client = NoClient /\ ExtStart(GoodConfig)
  \/ \E p \in Promises : RunStart(p, "ok")
  \/ \E c \in Clients : OnLoginStatus(c, 1)
  \/ SetMessageCallback
  \/ \E partial \in AllowListPartials : UpdateConfig(partial)
  \/ \E c \in Clients, msg \in FilterMessages : OnReceiveMessages(c, msg)
  \/ \E h \in HandlerIds : CallbackReturns(h)

SpecFilters == Init /\ [][NextFilters]_vars

\* text, image and geo messages of every conversation type, with and
\* without text
ConversationMessages ==
  { Message("u1", msgId, conversationId, messageType, text, "") :
      msgId \in MsgIds, conversationId \in ConversationIds,
      messageType \in {0, 1, 4}, text \in {<<"h", "i">>, <<" ">>} }

\* A gateway started once, with a callback that returns, receives messages
\* of direct and of group conversations.
NextConversations ==
  \/ calls = <<>> /\ v2Client = NoClient /\ ExtStart(GoodConfig)
  \/ \E p \in Promises : RunStart(p, "ok")
  \/ \E c \in Clients : OnLoginStatus(c, 1)
  \/ SetMessageCallback
  \/ \E c \in Clients, msg \in ConversationMessages : OnReceiveMessages(c, msg)
  \/ \E h \in HandlerIds : CallbackReturns(h)

SpecConversations == Init /\ [][NextConversations]_vars

\* calls of splitMessageIntoChunks, one for each text and chunk size
SpecChunks == InitChunks /\ [][SplitIterate]_vars

\* the loop is synchronous code: once entered it runs on
SpecChunksFair == SpecChunks /\ WF_vars(SplitIterate)

NextToggle == ToggleCalls \/ ToggleBodies \/ ToggleEvents

SpecToggle == Init /\ [][NextToggle]_vars

\* ====================================================================
\* Properties
\* ====================================================================
MidBody(p) == calls[p].pc # "await_previous"

Inited == {c \in DOMAIN sdk : sdk[c].st = "inited"}

\* the step just taken began the body of a start() or of a stop()
BodyBegins == last'.op \in {"startInternal", "stopInternal"}

\* the step just taken initialised a native client
InitIssued ==
  \E c \in DOMAIN sdk' :
     sdk'[c].st = "inited" /\ (c \notin DOMAIN sdk \/ sdk[c].st # "inited")

\* C1: at most one lifecycle body (startInternal, or stopInternal with its
\* settle wait) is executing at any instant, and a body begins only when the
\* promise of the call before it has settled and no other body is under way.
C1_OneBodyAtATime ==
  /\ [](Cardinality({p \in DOMAIN calls : MidBody(p)}) <= 1)
  /\ [][BodyBegins =>
          /\ last'.call \in DOMAIN calls
          /\ Settled(calls[last'.call].previous)
          /\ \A q \in DOMAIN calls : ~MidBody(q)]_vars

\* C1 witness: a call waits for the stop() before it, which is in its settle
\* delay.
C1_Witness ==
  \E p, q \in DOMAIN calls :
     calls[p].pc = "settle" /\ calls[q].pc = "await_previous" /\ calls[q].previous = p

\* the second start() of the toggle has just returned
ToggleEnd ==
  /\ last.op = "startInternal"
  /\ last.owner = 0
  /\ \A p \in DOMAIN calls : ~(calls[p].kind = "start" /\ calls[p].owner = 0)

\* C2: start, stop, start called without awaiting, the SDK succeeding: when
\* the second start() returns there is exactly one initialised native client,
\* the one referenced; no two clients are ever initialised at once, and no
\* init is issued while a client is still initialised or a stop() has not
\* finished its settle delay.
C2_ToggleSerialized ==
  /\ [](ToggleEnd => last.thrown = "none" /\ v2Client # NoClient /\ Inited = {v2Client})
  /\ [](Cardinality(Inited) <= 1)
  /\ [][InitIssued => Inited = {} /\ \A q \in DOMAIN calls : ~MidBody(q)]_vars

\* C2 witness: the second start() has returned and a client was torn down
\* and another initialised in between.
C2_Witness ==
  ToggleEnd /\ v2Client # NoClient /\ DOMAIN calls = {} /\ DOMAIN cycles = {}

\* C3: once an external stop() has returned and no external start() was
\* called since that stop() was called, no native handle exists.
C3_NoHandleAfterStop == stopReturned => v2Client = NoClient

\* C4: a reconnect cycle during whose own stop() the application called
\* stop() does not go on to call start().
C4_ReconnectAbandoned ==
  \A k \in DOMAIN cycles : cycles[k].userStop => cycles[k].pc # "await_start"

\* C5 as stated: at the moment uninit() is called no listener of the gateway
\* is registered with the SDK.
C5_NoListenerAtUninit ==
  \A p \in DOMAIN calls :
     calls[p].pc = "uninit" => \A c \in DOMAIN sdk : sdk[c].ls = {}

\* C5 amended: in every stop() that finds a handle the off() calls come
\* first and, unless one of them raises, leave no listener of the session
\* registered when uninit() is called; uninit() is called on the handle
\* while it is still referenced; the references are nulled and the status
\* reset after that, and the settle delay comes last.
C5_TeardownOrder ==
  \A p \in DOMAIN calls :
     /\ calls[p].pc = "remove_listeners" =>
          /\ v2Client # NoClient
          /\ sdk[v2Client].st = "inited"
          /\ sdk[v2Client].ls = Listeners
     /\ calls[p].pc = "uninit" =>
          /\ v2Client # NoClient
          /\ sdk[v2Client].st = "inited"
          /\ bound = NoClient
          /\ last.op = "removeListeners"
          /\ last.arg = "removed" => sdk[v2Client].ls = {}
     /\ calls[p].pc = "cleanup" =>
          /\ v2Client # NoClient
          /\ loginService # NoClient
          /\ messageService # NoClient
          /\ sdk[v2Client].st = "uninited"
          /\ last.emitted = <<>>
     /\ calls[p].pc = "settle" =>
          /\ v2Client = NoClient
          /\ loginService = NoClient
          /\ messageService = NoClient
          /\ ~status.connected

\* C5 witness: uninit() is about to be called after every off() returned.
C5_Witness ==
  \E p \in DOMAIN calls :
     calls[p].pc = "uninit" /\ last.arg = "removed" /\ status.connected

\* C6: a bound callback that fires while the handle reference is null
\* changes nothing of the gateway, emits nothing, starts no call and no
\* reconnect.
C6_StaleCallbackNoOp ==
  [][(last'.op \in Listeners /\ v2Client = NoClient) =>
       /\ UNCHANGED <<gateway, unsettled, calls, cycles, sdk>>
       /\ last'.emitted = <<>>]_vars

\* C6 witness: a callback fired while the handle reference was null, with a
\* config stored.
C6_Witness ==
  last.op \in Listeners /\ last.arg = "stale" /\ v2Client = NoClient /\ ~config.nul

\* C7: every initialised native client is the one the gateway references,
\* so that at most one is initialised at any instant.
C7_NoLeakedClient ==
  /\ \A c \in Inited : c = v2Client
  /\ Cardinality(Inited) <= 1

\* C8: stop() whose body finds no handle raises nothing, calls no uninit(),
\* does not wait, emits nothing and leaves handle, config and status as they
\* were, and cancels the reconnect timer; called by the application on the
\* state a stop() left, it changes no field of the gateway, so that a second
\* stop() in a row leaves the state of the first.
C8_StopWithoutHandle ==
  [][(last'.op = "stopInternal" /\ v2Client = NoClient) =>
       /\ UNCHANGED <<v2Client, loginService, messageService, config, status, sdk>>
       /\ last'.thrown = "none"
       /\ last'.emitted = <<>>
       /\ \A q \in DOMAIN calls' : calls'[q].pc = "await_previous"
       /\ reconnectTimer' = NoTimer
       /\ (last'.owner = 0 /\ stopRequested /\ reconnectTimer = NoTimer
             /\ reconnectAttempts = 0) =>
            UNCHANGED <<v2Client, loginService, messageService, bound, config,
                        status, lastSenderId, reconnectTimer, reconnectAttempts,
                        cleanupInterval, stopRequested>>]_vars

\* C8 witness: a stop() called by the application found no handle on a
\* gateway that had been started and stopped.
C8_Witness ==
  /\ last.op = "stopInternal" /\ last.arg = "not running" /\ last.owner = 0
  /\ ~config.nul /\ stopRequested
  /\ status.botAccount # Null /\ status.lastError = Null

\* C9: a start() whose body finds a handle raises 'already running' and
\* leaves the handle, the services, the bound callbacks, the config and the
\* status as they were; no native client is created.
C9_AlreadyRunning ==
  [][(last'.op = "startInternal" /\ v2Client # NoClient) =>
       /\ last'.thrown = "NIM gateway already running"
       /\ last'.emitted = <<>>
       /\ UNCHANGED <<v2Client, loginService, messageService, bound, config, status,
                      sdk, cleanupInterval>>]_vars

\* C9 witness: an external start() raised 'already running' on a connected
\* gateway.
C9_Witness ==
  /\ last.op = "startInternal"
  /\ last.thrown = "NIM gateway already running"
  /\ last.owner = 0
  /\ v2Client # NoClient
  /\ status.connected

HasCredentials(cfg) == cfg.appKey # "" /\ cfg.account # "" /\ cfg.token # ""

\* the step just taken created a native client
ClientCreated == v2Client' # v2Client \/ sdk' # sdk

\* C10: the body of start(cfg) creates a native client only if no handle
\* exists, cfg is enabled and has appKey, account and token.  Without a
\* handle: a disabled cfg is stored and start returns, still without a
\* handle; an enabled cfg that lacks a credential makes start raise the
\* missing-credentials error and no client is created.
C10_StartPreconditions ==
  [][last'.op = "startInternal" =>
       LET cfg == calls[last'.call].cfg IN
       /\ ClientCreated =>
            v2Client = NoClient /\ cfg.enabled /\ HasCredentials(cfg)
       /\ (v2Client = NoClient /\ ~cfg.enabled) =>
            /\ config' = cfg
            /\ last'.thrown = "none"
            /\ v2Client' = NoClient
            /\ sdk' = sdk
       /\ (v2Client = NoClient /\ cfg.enabled /\ ~HasCredentials(cfg)) =>
            /\ last'.thrown = "NIM appKey, account and token are required"
            /\ v2Client' = NoClient
            /\ sdk' = sdk]_vars

\* C10 witness: start() raised the missing-credentials error for a config
\* that lacks only its token.
C10_Witness ==
  /\ last.op = "startInternal"
  /\ last.thrown = "NIM appKey, account and token are required"
  /\ config.token = "" /\ config.appKey # "" /\ config.account # ""
  /\ v2Client = NoClient

\* the errors startInternal raises from its try block
StartErrors == {"NIM SDK V2 initialization failed", "NIM SDK V2 services not available"}

\* C11: when start(cfg) with an enabled cfg returns without error, the
\* handle exists, the five callbacks are bound and registered, login has
\* been issued and status.connected is false; status.connected becomes true
\* only in a loginStatus callback given 1 that found the handle non-null.
C11_StartReturnsBeforeLogin ==
  /\ [][(last'.op = "startInternal" /\ last'.thrown = "none"
           /\ calls[last'.call].cfg.enabled) =>
          /\ v2Client' # NoClient
          /\ loginService' = v2Client' /\ messageService' = v2Client'
          /\ bound' = v2Client'
          /\ sdk'[v2Client'].st = "inited"
          /\ sdk'[v2Client'].ls = Listeners
          /\ sdk'[v2Client'].login
          /\ ~status'.connected]_vars
  /\ [][(~status.connected /\ status'.connected) =>
          /\ last'.op = "loginStatus"
          /\ last'.emitted = <<"connected", "status">>
          /\ v2Client # NoClient]_vars

\* C11 witness: start() called by the application has returned, the login
\* issued and not yet confirmed.
C11_Witness ==
  /\ last.op = "startInternal" /\ last.thrown = "none" /\ last.owner = 0
  /\ v2Client # NoClient /\ sdk[v2Client].login /\ ~status.connected

\* C12: when init() returns an error or a service is unavailable, start()
\* raises the error to its caller, 'error' is emitted, the references to the
\* client and its services are null, the stored config is the one passed to
\* that start(), and status is connected=false with lastError the error text.
C12_StartFailure ==
  [][(last'.op = "startInternal" /\ last'.thrown \in StartErrors) =>
       /\ last'.emitted = <<"error">>
       /\ v2Client' = NoClient /\ loginService' = NoClient /\ messageService' = NoClient
       /\ config' = calls[last'.call].cfg
       /\ ~status'.connected
       /\ status'.lastError = last'.thrown]_vars

\* C12 witness: a start() called by the application raised 'services not
\* available' after init() had succeeded.
C12_Witness ==
  /\ last.op = "startInternal" /\ last.owner = 0
  /\ last.thrown = "NIM SDK V2 services not available"
  /\ status.lastError = last.thrown /\ ~config.nul

\* the start() of a reconnect cycle has just failed, stop not requested
RetryFailed ==
  /\ last'.op = "startInternal"
  /\ last'.owner \in DOMAIN cycles
  /\ last'.thrown # "none"
  /\ ~stopRequested'

\* C13: when the start() of a reconnect cycle fails and stop was not
\* requested, the next reconnect is scheduled 2000ms ahead if the cycle was
\* not itself such a retry, and at double the cycle's own delay, capped at
\* 30000ms, if it was (a retry is known by its delay: no event and no
\* reconnectIfNeeded() schedules 2000, 4000, 8000 or 16000).
C13_RetryDelayDoubles ==
  [][RetryFailed =>
       /\ reconnectTimer'.armed
       /\ reconnectTimer'.delayMs =
            IF cycles[last'.owner].delayMs \in {2000, 4000, 8000, 16000}
            THEN Min(2 * cycles[last'.owner].delayMs, MAX_RECONNECT_DELAY_MS)
            ELSE 2000]_vars

\* the step just taken was a failure that schedules a reconnect
FailureStep ==
  \/ last'.op \in {"kickedOffline", "loginFailed", "disconnected"} /\ last'.arg = "live"
  \/ RetryFailed

\* C14 as stated: a failure that replaces a pending reconnect, with no
\* successful login since that one was scheduled (startedAt is set by a
\* login and reset only by a stop, which cancels the timer, or a start),
\* schedules a delay no shorter; and no delay exceeds 30000ms.
C14_DelaysNonDecreasing ==
  /\ [](reconnectTimer.armed => reconnectTimer.delayMs <= MAX_RECONNECT_DELAY_MS)
  /\ [][(FailureStep /\ reconnectTimer.armed /\ reconnectTimer'.armed
           /\ status.startedAt = Null) =>
          reconnectTimer'.delayMs >= reconnectTimer.delayMs]_vars

\* C14 amended: every scheduled delay is at most 30000ms; a disconnected
\* event schedules 3000ms, a kicked-offline event 5000ms, a login-failed
\* event 3000ms or more, a failed reconnect start 2000ms or more, whatever
\* the delay scheduled before.
C14_DelaysCapped ==
  /\ [](reconnectTimer.armed => reconnectTimer.delayMs <= MAX_RECONNECT_DELAY_MS)
  /\ [][(FailureStep /\ reconnectTimer'.armed) =>
          /\ last'.op = "disconnected" => reconnectTimer'.delayMs = 3000
          /\ last'.op = "kickedOffline" => reconnectTimer'.delayMs = 5000
          /\ last'.op = "loginFailed" => reconnectTimer'.delayMs >= 3000
          /\ last'.op = "startInternal" => reconnectTimer'.delayMs >= 2000]_vars

\* C14 witness: a disconnected event replaced the 5000ms reconnect of a
\* kicked-offline event by one of 3000ms.
C14_Witness ==
  /\ last.op = "disconnected" /\ last.arg = "live"
  /\ reconnectTimer.armed /\ reconnectTimer.delayMs = 3000
  /\ status.startedAt = Null

\* C15: once a loginStatus callback has marked the gateway connected, no
\* reconnect timer is pending.
C15_TimerCancelledOnLogin ==
  [][(last'.op = "loginStatus" /\ status'.connected) => ~reconnectTimer'.armed]_vars

\* the fields of the gateway other than the reconnect timer
gatewayButTimer ==
  <<v2Client, loginService, messageService, bound, config, status, lastSenderId,
    reconnectAttempts, cleanupInterval, lifecyclePromise, stopRequested>>

\* C16: reconnectIfNeeded() schedules a reconnect 0ms ahead, with the stored
\* config, exactly when stop is not requested, a config is stored and there
\* is no handle or status.connected is false; otherwise it changes nothing.
\* It never starts a call and never touches a native client.
C16_ReconnectIfNeeded ==
  [][last'.op = "reconnectIfNeeded" =>
       /\ UNCHANGED <<gatewayButTimer, unsettled, calls, cycles, sdk>>
       /\ last'.emitted = <<>>
       /\ IF ~stopRequested /\ ~config.nul /\ (v2Client = NoClient \/ ~status.connected)
          THEN reconnectTimer' = [armed |-> TRUE, delayMs |-> 0, savedConfig |-> config]
          ELSE UNCHANGED reconnectTimer]_vars

\* C16 witness: reconnectIfNeeded() scheduled a reconnect on a gateway that
\* has a handle and is not connected.
C16_Witness ==
  /\ last.op = "reconnectIfNeeded"
  /\ reconnectTimer.armed /\ reconnectTimer.delayMs = 0
  /\ v2Client # NoClient /\ ~status.connected

\* C17: updateConfig(partial) replaces in the stored config the fields that
\* partial names and no other, and leaves the handle, the services, the
\* bound callbacks, the status, the reconnect timer, stopRequested and the
\* lifecycle chain as they were; with no config stored it changes nothing.
C17_UpdateConfigFrame ==
  [][last'.op = "updateConfig" =>
       /\ UNCHANGED <<v2Client, loginService, messageService,
                      bound, status, lastSenderId, reconnectTimer, reconnectAttempts,
                      cleanupInterval, lifecyclePromise, stopRequested, unsettled,
                      calls, cycles, sdk, processedMessages>>
       /\ last'.emitted = <<>>
       /\ IF config.nul
          THEN config' = config
          ELSE \A f \in DOMAIN config :
                 config'[f] = IF f \in DOMAIN last'.partial
                              THEN last'.partial[f]
                              ELSE config[f]]_vars

\* C17 witness: the whitelist was set on a connected gateway with a call
\* pending, the credentials as they were.
C17_Witness ==
  /\ last.op = "updateConfig"
  /\ last.partial = [accountWhitelist |-> <<"u1">>]
  /\ config.accountWhitelist = <<"u1">> /\ config.token = "tok"
  /\ v2Client # NoClient /\ status.connected
  /\ DOMAIN calls # {}

\* the message of the step just taken passed the sender filters and had
\* its id looked up
LookedUp ==
  /\ last'.op = "receiveMessages" /\ last'.arg = "live"
  /\ last'.msg.senderId # config.account
  /\ config.accountWhitelist \in {<<>>, <<last'.msg.senderId>>}

\* C18: a message whose id was first seen no more than the TTL ago is not
\* delivered and leaves the time of that first sighting as it was; a message
\* whose id was never seen, or first seen more than the TTL ago, is delivered
\* once and its id stamped with the current time.
C18_DedupWindow ==
  [][LookedUp =>
       LET m == last'.msg.msgId
           seen == /\ m \in DOMAIN processedMessages
                   /\ now - processedMessages[m] <= MESSAGE_DEDUP_TTL
       IN /\ m \in DOMAIN processedMessages'
          /\ seen => /\ last'.emitted = <<>>
                      /\ processedMessages'[m] = processedMessages[m]
                      /\ UNCHANGED <<lastSenderId, status>>
          /\ ~seen => /\ last'.emitted = <<"message">>
                       /\ processedMessages'[m] = now
                       /\ lastSenderId' = last'.msg.senderId]_vars

\* C18 witness: a duplicate arrived exactly the TTL after the first sighting
\* and was dropped.
C18_Witness ==
  /\ last.op = "receiveMessages" /\ last.arg = "live" /\ last.emitted = <<>>
  /\ last.msg.senderId = "u1"
  /\ last.msg.msgId \in DOMAIN processedMessages
  /\ now - processedMessages[last.msg.msgId] = MESSAGE_DEDUP_TTL

\* C19 as stated: every id in the cache was first seen within the last TTL.
C19_AllWithinTTL ==
  \A m \in DOMAIN processedMessages : now - processedMessages[m] <= MESSAGE_DEDUP_TTL

\* C19 amended: after every lookup every id in the cache was first seen
\* within the last TTL; entries leave the cache in a lookup only, so that
\* between lookups the cache may hold older ones.
C19_FreshAfterLookup ==
  /\ [][LookedUp =>
          \A m \in DOMAIN processedMessages' :
             /\ now' - processedMessages'[m] <= MESSAGE_DEDUP_TTL
             /\ now' - processedMessages'[m] >= 0]_vars
  /\ [][processedMessages' # processedMessages => LookedUp]_vars

\* C19 witness: a lookup of another id left an entry that was exactly the
\* TTL old.
C19_Witness ==
  /\ last.op = "receiveMessages" /\ last.msg.msgId = "m2"
  /\ DOMAIN processedMessages = {"m1", "m2"}
  /\ processedMessages["m2"] = now
  /\ now - processedMessages["m1"] = MESSAGE_DEDUP_TTL

\* C20: a message whose sender is the configured account emits no 'message',
\* changes neither lastSenderId nor the status, and leaves the dedup cache
\* as it was.
C20_SelfMessageIgnored ==
  [][(last'.op = "receiveMessages" /\ ~config.nul
        /\ last'.msg.senderId = config.account) =>
       /\ last'.emitted = <<>>
       /\ UNCHANGED <<gateway, processedMessages, unsettled, calls, cycles, sdk>>]_vars

\* C20 witness: a connected gateway was handed a message of its own account
\* with an id not in the cache.
C20_Witness ==
  /\ last.op = "receiveMessages" /\ last.arg = "live"
  /\ last.msg.senderId = config.account
  /\ last.msg.msgId \notin DOMAIN processedMessages
  /\ status.connected

\* ---------------------------------------------------------------- C30
\* C30: the media cleanup interval exists only while a client handle
\* exists: a login success is the only step that sets it, at most one
\* interval timer is live at any time (a repeated login success sets no
\* second one), the field refers to the live timer, and once a stop or a
\* failed start has dropped the handle no interval is left.
C30_IntervalWithClient ==
  [][ /\ intervals' = (IF cleanupInterval' THEN 1 ELSE 0)
      /\ (cleanupInterval' => v2Client' # NoClient)
      /\ (cleanupInterval' /\ ~cleanupInterval => last'.op = "loginStatus")
      /\ (last'.op = "loginStatus" /\ cleanupInterval => intervals' = intervals)
      /\ (last'.op = "cleanup" \/ v2Client' = NoClient => intervals' = 0) ]_vars

\* a stop tore down a session whose interval was set
C30_Witness ==
  /\ last.op = "cleanup"
  /\ last.arg = "interval cleared"
  /\ ~cleanupInterval
  /\ intervals = 0

\* ---------------------------------------------------------------- C28
\* text is the chunks in their order, with nothing but whitespace between
\* one chunk and the next and after the last one
RECURSIVE Reproduces(_, _)
Reproduces(text, chunks) ==
  IF chunks = <<>>
  THEN \A i \in 1..Len(text) : text[i] \in Whitespace
  ELSE LET c == Head(chunks) IN
       /\ Len(c) <= Len(text)
       /\ SubSeq(text, 1, Len(c)) = c
       /\ \E k \in 0..(Len(text) - Len(c)) :
            /\ \A j \in 1..k : text[Len(c) + j] \in Whitespace
            /\ Reproduces(SubSeq(text, Len(c) + k + 1, Len(text)), Tail(chunks))

\* C28: for every text T and every N >= 1 each chunk returned by
\* splitMessageIntoChunks(T, N) has at most N characters, and T is the
\* concatenation of the chunks with only whitespace left out where one
\* chunk ends and the next begins (or where the text ends): no other
\* character is lost, duplicated or reordered.
C28_ChunksReproduceText ==
  chunking.pc = "returned" =>
    /\ \A i \in 1..Len(chunking.chunks) : Len(chunking.chunks[i]) <= chunking.maxLength
    /\ Reproduces(chunking.text, chunking.chunks)
    /\ chunking.chunks = splitMessageIntoChunks(chunking.text, chunking.maxLength)

\* a text was split at a blank and hard, and whitespace was left out
C28_Witness ==
  /\ chunking.pc = "returned"
  /\ chunking.text = <<"a", " ", " ", "a", "a">>
  /\ chunking.maxLength = 2
  /\ chunking.chunks = << <<"a", " ">>, <<"a", "a">> >>

\* ---------------------------------------------------------------- C29
\* C29: splitMessageIntoChunks(T, N) terminates for every text T and every
\* N >= 1: every run of the loop body takes at least one character, and at
\* least N/2 characters, off the remaining text, and for a text longer than
\* N no returned chunk is empty.
C29_SplitTerminates ==
  /\ [][ chunking.pc = "loop" /\ chunking'.pc = "loop" =>
           /\ Len(chunking.remaining) - Len(chunking'.remaining) >= 1
           /\ 2 * (Len(chunking.remaining) - Len(chunking'.remaining)) >= chunking.maxLength
           /\ Len(chunking'.chunks) = Len(chunking.chunks) + 1 ]_vars
  /\ [](chunking.pc = "returned" /\ Len(chunking.text) > chunking.maxLength =>
          \A i \in 1..Len(chunking.chunks) : chunking.chunks[i] # <<>>)
  /\ <>(chunking.pc = "returned")

\* the loop ran three times on a text with a blank at its start
C29_Witness ==
  /\ chunking.pc = "returned"
  /\ chunking.text = <<" ", "a", "a", " ", "a">>
  /\ chunking.maxLength = 2
  /\ Len(chunking.chunks) = 3

\* ---------------------------------------------------------------- C21
\* the step called the callback with the message it handled
CallbackCalled ==
  \E h \in (DOMAIN handlers') \ (DOMAIN handlers) :
     handlers'[h].msg = last'.msg /\ handlers'[h].pc = "callback"

\* senderId is an entry of the allow-list: it stands between two commas
\* (or an end of the string) with nothing but whitespace around it
IsEntry(list, senderId) ==
  \E i \in 1..Len(list), j \in 1..Len(list) :
     /\ i <= j
     /\ i = 1 \/ list[i - 1] = ","
     /\ j = Len(list) \/ list[j + 1] = ","
     /\ \E k \in i..j : /\ list[k] = senderId
                         /\ \A l \in (i..j) \ {k} : list[l] \in Whitespace

\* the allow-list has a non-empty entry
HasEntry(list) == \E k \in 1..Len(list) : list[k] \notin Whitespace \cup {","}

\* C21: with an allow-list that has at least one non-empty entry, an event
\* reaches the callback only if its sender is one of the entries, and a
\* sender that is none is dropped before the dedup lookup; with no
\* allow-list, or one without an entry, and for a sender that is an entry,
\* the event goes on to the dedup lookup.  The list is the one stored in
\* the config when the event is handled.
C21_AllowList ==
  [][ (/\ last'.op = "receiveMessages" /\ last'.arg = "live"
       /\ last'.msg.senderId # config.account) =>
        LET list == config.accountWhitelist
            senderId == last'.msg.senderId
        IN  /\ HasEntry(list) /\ CallbackCalled => IsEntry(list, senderId)
            /\ HasEntry(list) /\ ~IsEntry(list, senderId) =>
                  /\ ~CallbackCalled
                  /\ last'.emitted = <<>>
                  /\ processedMessages' = processedMessages
            /\ ~HasEntry(list) \/ IsEntry(list, senderId) =>
                  last'.msg.msgId \in DOMAIN processedMessages' ]_vars

\* after an update of the allow-list to " u1 ,, u2" a message of u2 reached
\* the callback
C21_Witness ==
  /\ last.op = "receiveMessages" /\ last.arg = "live"
  /\ config.accountWhitelist = <<" ", "u1", " ", ",", ",", " ", "u2">>
  /\ last.msg.senderId = "u2"
  /\ last.emitted = <<"message">>
  /\ \E h \in DOMAIN handlers : handlers[h].msg = last.msg /\ handlers[h].pc = "callback"

\* ---------------------------------------------------------------- C22
\* C22: an inbound event whose conversation id carries a type number other
\* than 1, that of a team (2) or of a superTeam (3), never reaches the
\* callback and raises no 'message' event.
C22_OnlyDirectDelivered ==
  [][ (/\ last'.op = "receiveMessages"
       /\ Len(last'.msg.conversationId) >= 3
       /\ last'.msg.conversationId[2] \in {2, 3}) =>
        /\ ~CallbackCalled
        /\ last'.emitted = <<>> ]_vars

\* ---------------------------------------------------------------- C23
\* C23: when the callback raises, one apology reply with the error text is
\* attempted to the sender of the message: one text message, and no other
\* one after it.  Nothing is raised out of handleIncomingMessage, also when
\* the send of the apology fails, and the gateway goes on to deliver the
\* messages that arrive later.
C23_CallbackErrorCaught ==
  [][ /\ \A h \in DOMAIN handlers :
           /\ (last'.op = "callbackThrew" /\ last'.call = h) =>
                 /\ last'.thrown = "none"
                 /\ IF h \in DOMAIN handlers'
                    THEN /\ handlers'[h].pc = "apology"
                         /\ handlers'[h].reply.to = handlers[h].msg.senderId
                         /\ handlers'[h].reply.text = "sorry"
                         /\ handlers'[h].reply.log = << <<"text", 1>> >>
                         /\ handlers'[h].reply.inflight
                    ELSE messageService = NoClient
           /\ handlers[h].pc = "apology" =>
                 /\ last'.thrown = "none"
                 /\ h \in DOMAIN handlers' => handlers'[h] = handlers[h]
                 /\ (last'.op = "sendCompleted" /\ last'.call = h) =>
                       h \notin DOMAIN handlers'
      /\ (/\ last'.op = "receiveMessages" /\ last'.arg = "live"
          /\ last'.msg = Msg("u1", "m1")
          /\ "m1" \notin DOMAIN processedMessages
          /\ onMessageCallback) =>
            /\ last'.emitted = <<"message">>
            /\ CallbackCalled ]_vars

\* while the apology for the image message is being sent, the text message
\* that arrived after it reached the callback
C23_Witness ==
  /\ last.op = "receiveMessages"
  /\ last.msg = Msg("u1", "m1")
  /\ last.emitted = <<"message">>
  /\ \E h, g \in DOMAIN handlers :
       /\ handlers[h].pc = "apology" /\ handlers[h].msg.msgId = "m2"
       /\ handlers[h].reply.inflight
       /\ handlers[g].pc = "callback" /\ handlers[g].msg = last.msg

\* ---------------------------------------------------------------- C24
\* C24: a media message with a url is delivered when its download has
\* ended, whatever the outcome: the 'message' event is raised and the
\* callback is called once, with the placeholder text and the url as content
\* and with the downloaded file as the only attachment, or with no
\* attachment if the download returned null.
C24_DownloadNeverFatal ==
  [][ \A h \in DOMAIN handlers :
        /\ (last'.op = "downloaded" /\ last'.call = h) =>
              /\ last'.thrown = "none"
              /\ last'.emitted = <<"message">>
              /\ onMessageCallback =>
                    /\ h \in DOMAIN handlers'
                    /\ handlers'[h].pc = "callback"
                    /\ handlers'[h].msg = handlers[h].msg
                    /\ handlers'[h].content = <<"[image]", " ", handlers[h].msg.attachUrl>>
                    /\ handlers'[h].attachments = (IF last'.arg = "file" THEN 1 ELSE 0)
                    /\ Cardinality({g \in DOMAIN handlers' :
                                      handlers'[g].msg = handlers[h].msg}) = 1
        /\ handlers[h].pc = "download" =>
              (h \in DOMAIN handlers' /\ handlers'[h] = handlers[h])
                 \/ (last'.op = "downloaded" /\ last'.call = h) ]_vars

\* the download failed and the callback was called without an attachment
C24_Witness ==
  /\ last.op = "downloaded" /\ last.arg = "null"
  /\ last.emitted = <<"message">>
  /\ last.call \in DOMAIN handlers
  /\ handlers[last.call].pc = "callback"
  /\ handlers[last.call].attachments = 0
  /\ handlers[last.call].content = <<"[image]", " ", "url">>

\* ---------------------------------------------------------------- C25
\* C25: when the send of a text chunk of a reply fails and the reply has
\* more to send, further chunks or markers, the reply goes on: it does not
\* end with that chunk.
C25_ChunkFailureCaught ==
  [][ \A h \in DOMAIN handlers :
        (/\ last'.op = "sendCompleted" /\ last'.call = h /\ last'.arg = "fail"
         /\ handlers[h].reply.next <= handlers[h].reply.chunks
         /\ handlers[h].reply.next < handlers[h].reply.chunks
                                       + Len(handlers[h].reply.markers)) =>
           /\ h \in DOMAIN handlers'
           /\ handlers'[h].reply.result = "running" ]_vars

\* ---------------------------------------------------------------- C26
\* the markers of a reply with a file, in their order
RECURSIVE Files(_, _)
Files(markers, k) ==
  IF k > Len(markers) THEN <<>>
  ELSE (IF markers[k] = "file" THEN << <<"media", k>> >> ELSE <<>>) \o Files(markers, k + 1)

\* the sends of media a reply attempted
RECURSIVE MediaOf(_)
MediaOf(log) ==
  IF log = <<>> THEN <<>>
  ELSE (IF Head(log)[1] = "media" THEN <<Head(log)>> ELSE <<>>) \o MediaOf(Tail(log))

\* C26: once a reply has come to its markers, a marker without a file is
\* skipped and a failed send of a marker is caught: the reply does not
\* raise, and when it is complete a send was attempted for every marker
\* with a file, in the order of the markers.
C26_MarkerFailureCaught ==
  [][ \A h \in DOMAIN handlers' :
        LET r == handlers'[h].reply IN
        /\ r.result = "raised" =>
              r.failed # <<>> /\ r.failed[Len(r.failed)][1] = "text"
        /\ r.result = "done" => MediaOf(r.log) = Files(r.markers, 1)
        /\ (/\ h \in DOMAIN handlers
            /\ handlers[h].reply.next > handlers[h].reply.chunks
            /\ handlers[h].reply.result = "running") =>
              r.result \in {"running", "done"} ]_vars

\* the send of the first of two markers failed, the second was sent and
\* the reply is complete
C26_Witness ==
  \E h \in DOMAIN handlers :
     /\ handlers[h].reply.markers = <<"file", "file">>
     /\ handlers[h].reply.failed = << <<"media", 1>> >>
     /\ MediaOf(handlers[h].reply.log) = << <<"media", 1>>, <<"media", 2>> >>
     /\ handlers[h].reply.result = "done"

\* ---------------------------------------------------------------- C27
\* the place of an item in a reply: the chunks of the text in their order,
\* then the markers in theirs
Place(r, it) == IF it[1] = "text" THEN it[2] ELSE r.chunks + it[2]

\* C27: in a reply with markers the sends are attempted in the order of the
\* items, every chunk of the stripped text before the first marker, the
\* markers in their order and each at most once; a send starts only when no
\* other send of the reply is awaited; and when the stripped text is empty
\* or a blank no text is sent.
C27_ReplyOrder ==
  [][ \A h \in DOMAIN handlers' :
        LET r == handlers'[h].reply IN
        r.markers # <<>> =>
          /\ \A i, j \in 1..Len(r.log) : i < j => Place(r, r.log[i]) < Place(r, r.log[j])
          /\ \A i \in 1..Len(r.log) :
                r.log[i][1] = "media" => r.log[i][2] \in 1..Len(r.markers)
          /\ r.text \in {"", " "} => \A i \in 1..Len(r.log) : r.log[i][1] = "media"
          /\ (h \in DOMAIN handlers /\ handlers[h].reply.result = "running"
                /\ handlers[h].pc = handlers'[h].pc) =>
                /\ Len(r.log) <= Len(handlers[h].reply.log) + 1
                /\ Len(r.log) > Len(handlers[h].reply.log) => ~handlers[h].reply.inflight ]_vars

\* a reply of two chunks and two markers is complete: four sends in order
C27_Witness ==
  \E h \in DOMAIN handlers :
     /\ handlers[h].reply.text = "long"
     /\ handlers[h].reply.markers = <<"file", "file">>
     /\ handlers[h].reply.log =
           << <<"text", 1>>, <<"text", 2>>, <<"media", 1>>, <<"media", 2>> >>
     /\ handlers[h].reply.result = "done"

\* ---------------------------------------------------------------- C31
\* the split index the claim describes: PositionsOf(c) is the positions
\* 0..maxLength of text that hold the character c, Usable(ps) the last
\* position of ps if ps has one and it is at least maxLength / 2
ChosenIndex(text, maxLength) ==
  LET PositionsOf(c) == {i \in 0..maxLength : i < Len(text) /\ text[i + 1] = c}
      Usable(ps) == {i \in ps : (\A j \in ps : j <= i) /\ 2 * i >= maxLength}
      newlines == Usable(PositionsOf("\n"))
      blanks == Usable(PositionsOf(" "))
  IN  IF newlines # {} THEN CHOOSE i \in newlines : TRUE
      ELSE IF blanks # {} THEN CHOOSE i \in blanks : TRUE
      ELSE maxLength

\* C31: when the remaining text is longer than maxLen, the loop body splits
\* it at the last newline at an index <= maxLen if there is one and its
\* index is at least maxLen / 2, else at the last blank at an index <=
\* maxLen under the same condition, else at maxLen.  The chunk is the text
\* before that index, and the new remaining text is the text from that
\* index on without its leading whitespace.
C31_SplitIndex ==
  [][ (chunking.pc = "loop" /\ Len(chunking.remaining) > chunking.maxLength) =>
        LET rem == chunking.remaining
            idx == ChosenIndex(rem, chunking.maxLength)
            rest == SubSeq(rem, idx + 1, Len(rem))
            dropped == Len(rest) - Len(chunking'.remaining)
        IN  /\ chunking'.chunks = Append(chunking.chunks, SubSeq(rem, 1, idx))
            /\ dropped >= 0
            /\ chunking'.remaining = SubSeq(rest, dropped + 1, Len(rest))
            /\ \A i \in 1..dropped : rest[i] \in Whitespace
            /\ chunking'.remaining = <<>> \/ chunking'.remaining[1] \notin Whitespace ]_vars

\* a text with a newline too early and a blank late enough was split at
\* the blank
C31_Witness ==
  /\ chunking.text = <<"a", "\n", "a", " ", "a">>
  /\ chunking.maxLength = 4
  /\ chunking.chunks = << <<"a", "\n", "a">> >>
  /\ chunking.remaining = <<"a">>

\* ---------------------------------------------------------------- C32
\* C32: reconnectAttempts is the number of reconnect attempts made since
\* the last login success: it grows by one when a reconnect timer starts
\* its cycle and goes back to 0 only at a login success (or when the
\* application stops the gateway).  A login-failed event on a live handle
\* schedules the reconnect 3000ms ahead while that number is at most 1,
\* then 3000 * 2^(number - 1) ms, at most 30000ms; a kicked-offline event
\* schedules 5000ms and a disconnected event 3000ms.
C32_LoginFailedBackoff ==
  [][ LET Graduated(count) ==
            IF count <= 1 THEN 3000
            ELSE IF 3000 * Pow2(count - 1) > 30000 THEN 30000
            ELSE 3000 * Pow2(count - 1)
      IN
      /\ reconnectAttempts' # reconnectAttempts =>
            \/ last'.op = "timer" /\ reconnectAttempts' = reconnectAttempts + 1
            \/ last'.op = "loginStatus" /\ reconnectAttempts' = 0
            \/ last'.op = "stopInternal" /\ last'.owner = 0 /\ reconnectAttempts' = 0
      /\ (/\ last'.op \in {"loginFailed", "kickedOffline", "disconnected"}
          /\ last'.arg = "live" /\ ~stopRequested /\ ~config.nul) =>
            /\ reconnectTimer'.armed
            /\ reconnectTimer'.delayMs =
                  CASE last'.op = "loginFailed" -> Graduated(reconnectAttempts)
                    [] last'.op = "kickedOffline" -> 5000
                    [] last'.op = "disconnected" -> 3000 ]_vars

\* ---------------------------------------------------------------- C33
\* C33: at most one reconnect timeout is live at any instant, and it is the
\* one the gateway refers to: scheduling a reconnect leaves exactly the
\* timer it arms, the body of a stop leaves none, and a timer that fired is
\* gone, so no timeout that was replaced or cancelled is left to fire.
C33_OneReconnectTimer ==
  [][ /\ timeouts' = (IF reconnectTimer'.armed THEN 1 ELSE 0)
      /\ last'.op = "stopInternal" => ~reconnectTimer'.armed /\ timeouts' = 0
      /\ (last'.op = "timer" /\ last'.arg = "bail") =>
            ~reconnectTimer'.armed /\ timeouts' = 0 /\ cycles' = cycles ]_vars

\* a live disconnected event has scheduled its 3000ms reconnect and no cycle
\* or lifecycle call is running: exactly one timeout is live
C33_Witness ==
  /\ last.op = "disconnected" /\ last.arg = "live"
  /\ status.lastError = "Disconnected"
  /\ reconnectTimer.armed /\ reconnectTimer.delayMs = 3000
  /\ timeouts = 1
  /\ reconnectAttempts = 0 /\ cycles = <<>> /\ calls = <<>>

\* ---------------------------------------------------------------- C34
\* C34: while a stop() called by the application has not returned,
\* stopRequested is true (the body of a start() called before it does not
\* clear it), and a reconnect timer that fires in that period bails out: no
\* stop, no start, reconnectAttempts unchanged.
C34_StopRequestedHeld ==
  [][ LET ExternalStops(cs) ==
            {p \in DOMAIN cs : cs[p].kind = "stop" /\ cs[p].owner = 0}
      IN  /\ ExternalStops(calls') # {} => stopRequested'
          /\ (last'.op = "timer" /\ ExternalStops(calls) # {}) =>
                /\ last'.arg = "bail"
                /\ calls' = calls /\ cycles' = cycles
                /\ reconnectAttempts' = reconnectAttempts ]_vars

\* ---------------------------------------------------------------- C35
\* C35: in every state between two steps, status.connected implies that the
\* native handle exists: the gateway is never connected before a start,
\* after a stop or after a failed start.
C35_ConnectedHasHandle == status.connected => v2Client # NoClient

\* a login success of an earlier session arrives after the stop tore the
\* session down: the gateway stays disconnected
C35_Witness ==
  /\ last.op = "loginStatus" /\ last.arg = "stale"
  /\ v2Client = NoClient /\ stopReturned
  /\ ~status.connected /\ last.emitted = <<>>

\* ---------------------------------------------------------------- C36
\* C36: the start() of a reconnect cycle leaves the stored config as it was
\* immediately before its body ran: a reconnect does not put back the config
\* captured when it was scheduled over a config stored since by
\* updateConfig(partial) or by a start(newConfig) of the application.
C36_ReconnectKeepsConfig ==
  [][(last'.op = "startInternal" /\ last'.owner # 0) => config' = config]_vars

\* ---------------------------------------------------------------- C37
\* C37: a callback of a session that was torn down, firing when a new
\* session has been started, is a no-op: it leaves the status and the
\* reconnect timer of the new session alone and emits nothing.
C37_StaleCallbackNoOp ==
  [][ (/\ last'.op \in {"receiveMessages", "loginStatus", "kickedOffline",
                        "loginFailed", "disconnected"}
       /\ v2Client # NoClient
       /\ last'.call # v2Client) =>
         /\ status' = status
         /\ reconnectTimer' = reconnectTimer
         /\ last'.emitted = <<>> ]_vars

\* ---------------------------------------------------------------- C38
\* A gateway that the application starts once and never stops: the SDK
\* succeeds or fails, the connection events fire, the timers run.
RetryBodies ==
  \/ \E p \in Promises, outcome \in SdkOutcomes : RunStart(p, outcome)
  \/ \E p \in Promises : RunStop(p)
  \/ \E p \in Promises, n \in OffOutcomes : StopRemoveListeners(p, n)
  \/ \E p \in Promises : StopUninit(p)
  \/ \E p \in Promises : StopCleanup(p)
  \/ \E p \in Promises : StopSettled(p)

NextRetry ==
  \/ last.op = "constructor" /\ ExtStart(GoodConfig)
  \/ RetryBodies
  \/ \E c \in Clients, loginStatus \in {0, 1, 2} : OnLoginStatus(c, loginStatus)
  \/ \E c \in Clients : OnKickedOffline(c)
  \/ \E c \in Clients : OnLoginFailed(c)
  \/ \E c \in Clients : OnDisconnected(c)
  \/ TimerFires

SpecRetry == Init /\ [][NextRetry]_vars

\* The event loop runs every continuation that is ready and every timer
\* whose delay has passed; the SDK's events are under no obligation.
SpecRetryFair == SpecRetry /\ WF_vars(RetryBodies) /\ WF_vars(TimerFires)

\* the start() of a reconnect cycle has just run
CycleStart == last.op = "startInternal" /\ last.owner # 0

\* C38: with fair timers and no stop by the application, a connection-loss
\* event on a live handle leads to the start() of a reconnect cycle; a
\* failed start() of a cycle leaves a timer armed, an armed timer leads to
\* the beginning of a further cycle and every cycle to its start().
C38_RetriesForever ==
  /\ (/\ last.op \in {"kickedOffline", "loginFailed", "disconnected"}
      /\ last.arg = "live") ~> CycleStart
  /\ []((CycleStart /\ last.thrown # "none") => reconnectTimer.armed)
  /\ reconnectTimer.armed ~> (last.op = "timer" /\ last.arg = "reconnect")
  /\ (last.op = "timer" /\ last.arg = "reconnect") ~> CycleStart

\* the start() of a reconnect cycle failed in the SDK and the next retry is
\* scheduled 2000ms ahead
C38_Witness ==
  /\ CycleStart
  /\ last.thrown = "NIM SDK V2 initialization failed"
  /\ reconnectTimer.armed /\ reconnectTimer.delayMs = 2000
  /\ ~stopRequested /\ v2Client = NoClient

\* ---------------------------------------------------------------- C39
\* C39: a step of the inbound handling taken while no native handle exists
\* (a receive callback, or a media download that completes after stop() tore
\* the session down) does not invoke the application callback, emits
\* nothing, and leaves the status and lastSenderId as they are.
C39_NoDeliveryWithoutHandle ==
  [][ (last'.op \in {"receiveMessages", "downloaded"} /\ v2Client = NoClient) =>
        /\ \A h \in DOMAIN handlers' :
              handlers'[h].pc = "callback" =>
                 h \in DOMAIN handlers /\ handlers[h].pc = "callback"
        /\ last'.emitted = <<>>
        /\ status' = status
        /\ lastSenderId' = lastSenderId ]_vars

\* ---------------------------------------------------------------- C40
\* C40: the callback is invoked in the order of delivery by the SDK: when a
\* received message is handed to the callback, no message accepted before
\* it is still waiting for its download, its callback not yet invoked.
C40_CallbackInDeliveryOrder ==
  [][ (last'.op = "receiveMessages" /\ CallbackCalled) =>
        \A h \in DOMAIN handlers : handlers[h].pc # "download" ]_vars

====
